---- MODULE Spec2Model ----
(***************************************************************************)
(* Embedding ingestion and retrieval service (Cohere embeddings stored in  *)
(* a Qdrant collection).  The repository holds several near-duplicate      *)
(* variants of the same service; each is modelled from its own source:     *)
(*   Strict  StrictEmbeddingPipeline        strict_embedding_pipeline.py    *)
(*   Local   LocalQdrantEmbeddingPipeline   local_qdrant_solution.py        *)
(*   E2E     EndToEndEmbeddingPipeline      end_to_end_embedding_pipeline.py*)
(*   Fixed   FixedEmbeddingPipeline         fixed_embedding_pipeline.py     *)
(*   TES     TextEmbeddingService           text_embedding_service.py       *)
(*   Robust  RobustQdrantEmbeddingService   robust_embedding_demo.py        *)
(*   QInt    QdrantEmbeddingService         qdrant_integration.py           *)
(*   Prod    module functions               production_rag_chatbot.py       *)
(* A behaviour constructs one service object of one variant and then calls *)
(* its methods one after the other.  The embedding provider and the vector *)
(* store are external: which of a method's external calls fails, and what  *)
(* the provider answers, is chosen nondeterministically for every call.    *)
(***************************************************************************)
EXTENDS Integers, Sequences, FiniteSets, TLC

\* ---------------------------------------------------------------- bounds
MaxIds == 2        \* uuid4 values one behaviour may draw
MaxBatch == 2      \* longest texts list passed to a batch save
MaxK == 2          \* largest top_k passed to a retrieve
MaxEnsures == 2    \* _ensure_collection_exists calls kept in the call log

\* ------------------------------------------------------ program constants
VectorSize == 1024
TopKLimit == 100
TextCountLimit == 100
CollectionName == "text_embeddings"
DOCUMENT == "search_document"
QUERY == "search_query"

\* ------------------------------------------------------------ value sets
Variants ==
    {"Strict", "Local", "E2E", "Fixed", "TES", "Robust", "QInt", "Prod", "Working"}
BatchVariants == {"TES", "Robust", "QInt"}
Stores == {"cloud", "local"}
Ids == 1..MaxIds

\* A text is a sequence of characters; SP is the whitespace character.
SP == " "
Texts == {<<>>, <<SP>>, <<"a">>, <<SP, "b">>}

\* An optional value (Python None or a value) is a sequence of length 0 or 1.
None == <<>>
Some(v) == <<v>>
IsNone(o) == o = <<>>
Val(o) == o[1]

\* A dict over the keys the code uses; every key holds an optional value.
Keys == {"text", "created_at", "id", "category"}
EmptyDict == [k \in Keys |-> None]
Has(d, k) == d[k] # None
Get(d, k) == Val(d[k])
Put(d, k, v) == [d EXCEPT ![k] = Some(v)]
NOW == "now"

\* dict.setdefault(k, v)
setdefault(d, k, v) == IF Has(d, k) THEN d ELSE Put(d, k, v)

\* dict.update(m) and {**d, **m}: the keys of m win
update(d, m) == [k \in Keys |-> IF Has(m, k) THEN m[k] ELSE d[k]]

\* str.strip(): drop leading and trailing whitespace
RECURSIVE lstrip(_)
lstrip(t) == IF t # <<>> /\ Head(t) = SP THEN lstrip(Tail(t)) ELSE t
RECURSIVE rstrip(_)
rstrip(t) == IF t # <<>> /\ t[Len(t)] = SP THEN rstrip(SubSeq(t, 1, Len(t) - 1)) ELSE t

\* `not text or not text.strip()`
IsBlank(t) == t = <<>> \/ rstrip(lstrip(t)) = <<>>

\* -------------------------------------------------- external environment
\* An environment value decides, for one method call, which of the external
\* calls the method makes fails (failAt = 0: none), how the store fails
\* ("404" is UnexpectedResponse mentioning 404, "err" any other exception),
\* and how many vectors of which length the provider answers with.
MaxCalls == 5
Fails(env, k) == env.failAt = k

\* cohere_client.embed(texts=..., input_type=...).embeddings
cohere_embed(texts, input_type, env) ==
    [i \in 1..(Len(texts) + env.provN) |->
        [dim |-> env.provDim,
         text |-> texts[IF i <= Len(texts) THEN i ELSE Len(texts)],
         mode |-> input_type]]

\* ----------------------------------------------------------- the store
\* any(col.name == self.collection_name for col in collections.collections)
collection_exists(cs, name) == \E i \in 1..Len(cs) : cs[i].name = name

CollectionSize(cs, name) ==
    LET i == CHOOSE j \in 1..Len(cs) : cs[j].name = name IN cs[i].size

\* create_collection asked for the dot product instead of the cosine distance
StoreCreate_Dot(cs, name, size, fail) ==
    IF fail \/ collection_exists(cs, name)
    THEN [ok |-> FALSE, colls |-> cs]
    ELSE [ok |-> TRUE,
          colls |-> Append(cs, [name |-> name, size |-> size, distance |-> "Dot"])]

\* qdrant_client.create_collection: the store refuses a name it already holds
StoreCreate(cs, name, size, fail) ==
    IF fail \/ collection_exists(cs, name)
    THEN [ok |-> FALSE, colls |-> cs]
    ELSE [ok |-> TRUE,
          colls |-> Append(cs, [name |-> name, size |-> size, distance |-> "Cosine"])]

\* PointStruct(id=..., vector=..., payload=...)
PointStruct(id, vector, payload) == [id |-> id, vector |-> vector, payload |-> payload]

\* insert-or-replace by id, one point after the other
RECURSIVE UpsertAll(_, _)
UpsertAll(ps, batch) ==
    IF batch = <<>> THEN ps
    ELSE UpsertAll({p \in ps : p.id # Head(batch).id} \cup {Head(batch)}, Tail(batch))

\* an upsert that has written its first point when the request fails
StoreUpsert_Partial(cs, ps, name, batch, fail) ==
    IF \/ ~collection_exists(cs, name)
       \/ batch = <<>>
       \/ \E i \in 1..Len(batch) : batch[i].vector.dim # CollectionSize(cs, name)
    THEN [ok |-> FALSE, points |-> ps]
    ELSE IF fail THEN [ok |-> FALSE, points |-> UpsertAll(ps, <<batch[1]>>)]
    ELSE [ok |-> TRUE, points |-> UpsertAll(ps, batch)]

\* qdrant_client.upsert: fails as a whole when the collection is missing,
\* the batch is empty or a vector has the wrong length
StoreUpsert(cs, ps, name, batch, fail) ==
    IF \/ fail
       \/ ~collection_exists(cs, name)
       \/ batch = <<>>
       \/ \E i \in 1..Len(batch) : batch[i].vector.dim # CollectionSize(cs, name)
    THEN [ok |-> FALSE, points |-> ps]
    ELSE [ok |-> TRUE, points |-> UpsertAll(ps, batch)]

\* similarity of a stored vector to the query vector: the same source text
\* scores highest
Score(qv, pv) == IF qv.text = pv.text THEN 2 ELSE 1

\* the hit list: descending score, the store's native order (id) on ties
RECURSIVE Ranked(_, _)
Ranked(ps, qv) ==
    IF ps = {} THEN <<>>
    ELSE LET best == CHOOSE p \in ps : \A q \in ps :
                        \/ Score(qv, p.vector) > Score(qv, q.vector)
                        \/ Score(qv, p.vector) = Score(qv, q.vector) /\ p.id <= q.id
         IN <<[id |-> best.id, score |-> Score(qv, best.vector), payload |-> best.payload]>>
                \o Ranked(ps \ {best}, qv)

Min(a, b) == IF a < b THEN a ELSE b

\* qdrant_client.search / query_points(limit=top_k, with_payload=True)
\* (the store answers a limit below 1 with a validation error)
StoreSearch(cs, ps, name, qv, limit, fail) ==
    IF \/ fail
       \/ limit < 1
       \/ ~collection_exists(cs, name)
       \/ qv.dim # CollectionSize(cs, name)
    THEN [ok |-> FALSE, hits |-> <<>>]
    ELSE LET all == Ranked(ps, qv)
         IN [ok |-> TRUE, hits |-> SubSeq(all, 1, Min(limit, Len(all)))]

\* qdrant_client.delete(points_selector=PointIdsList(points=ids)): removes
\* the points with these ids; an id the collection does not hold is skipped
StoreDelete(cs, ps, name, ids, fail) ==
    IF fail \/ ~collection_exists(cs, name) THEN [ok |-> FALSE, points |-> ps]
    ELSE [ok |-> TRUE, points |-> {p \in ps : \A i \in 1..Len(ids) : ids[i] # p.id}]

\* qdrant_client.count(collection_name=name).count
StoreCount(cs, ps, name, fail) ==
    IF fail \/ ~collection_exists(cs, name) THEN [ok |-> FALSE, count |-> 0]
    ELSE [ok |-> TRUE, count |-> Cardinality(ps)]

\* the loop that turns hits into result dicts
RECURSIVE process_results(_)
process_results(hits) ==
    IF hits = <<>> THEN <<>>
    ELSE <<[id |-> Head(hits).id,
            score |-> Head(hits).score,
            payload |-> Head(hits).payload,
            text |-> IF Has(Head(hits).payload, "text")
                     THEN Get(Head(hits).payload, "text") ELSE <<>>]>>
         \o process_results(Tail(hits))


\* ------------------------------------------------------- method results
\* st is what a service object sees: its client ("cloud", "local" or "none")
\* and the collections and points of the store that client talks to.
\* A result carries the outcome (how the method ended), the external calls
\* it issued in order, what it returned and the store it leaves behind.
Result(st) ==
    [outcome |-> "ok", ret |-> "None", calls |-> <<>>, ids |-> <<>>, res |-> <<>>,
     vecs |-> <<>>, drawn |-> 0, written |-> {}, count |-> None,
     colls |-> st.colls, points |-> st.points, client |-> st.client]

StoreError(env) == IF env.kind = "404" THEN "StoreError404" ELSE "StoreError"

\* ------------------------------------------- _ensure_collection_exists
\* The try-body shared by the variants: list the collections, create the
\* collection when it is not listed.  k is the index of the first external
\* call the body makes.
EnsureBody_AlwaysCreate(cs, env, k, vector_size) ==
    IF Fails(env, k) THEN [ok |-> FALSE, colls |-> cs, calls |-> <<"list">>]
    ELSE LET c == StoreCreate(cs, CollectionName, vector_size, Fails(env, k + 1))
         IN [ok |-> c.ok, colls |-> c.colls, calls |-> <<"list", "create">>]

EnsureBody(cs, env, k, vector_size) ==
    IF Fails(env, k) THEN [ok |-> FALSE, colls |-> cs, calls |-> <<"list">>]
    ELSE IF ~collection_exists(cs, CollectionName)
         THEN LET c == StoreCreate(cs, CollectionName, vector_size, Fails(env, k + 1))
              IN [ok |-> c.ok, colls |-> c.colls, calls |-> <<"list", "create">>]
         ELSE [ok |-> TRUE, colls |-> cs, calls |-> <<"list">>]

\* StrictEmbeddingPipeline._ensure_collection_exists: re-raises
Strict_ensure_collection_exists(st, env, k) ==
    LET b == EnsureBody(st.colls, env, k, VectorSize)
    IN [Result(st) EXCEPT !.outcome = IF b.ok THEN "ok" ELSE StoreError(env),
                          !.calls = b.calls, !.colls = b.colls]

\* EndToEndEmbeddingPipeline._ensure_collection_exists: re-raises
E2E_ensure_collection_exists(st, env, k) ==
    LET b == EnsureBody(st.colls, env, k, VectorSize)
    IN [Result(st) EXCEPT !.outcome = IF b.ok THEN "ok" ELSE StoreError(env),
                          !.calls = b.calls, !.colls = b.colls]

\* FixedEmbeddingPipeline._ensure_collection_exists: returns True or re-raises
Fixed_ensure_collection_exists(st, env, k) ==
    LET b == EnsureBody(st.colls, env, k, VectorSize)
    IN [Result(st) EXCEPT !.outcome = IF b.ok THEN "ok" ELSE StoreError(env),
                          !.ret = IF b.ok THEN "True" ELSE "None",
                          !.calls = b.calls, !.colls = b.colls]

\* QdrantEmbeddingService._ensure_collection_exists: returns True or re-raises
QInt_ensure_collection_exists(st, env, k) ==
    LET b == EnsureBody(st.colls, env, k, VectorSize)
    IN [Result(st) EXCEPT !.outcome = IF b.ok THEN "ok" ELSE StoreError(env),
                          !.ret = IF b.ok THEN "True" ELSE "None",
                          !.calls = b.calls, !.colls = b.colls]

\* TextEmbeddingService._ensure_collection_exists: returns False on any error
TES_ensure_collection_exists(st, env, k) ==
    LET b == EnsureBody(st.colls, env, k, VectorSize)
    IN [Result(st) EXCEPT !.ret = IF b.ok THEN "True" ELSE "False",
                          !.calls = b.calls, !.colls = b.colls]

\* LocalQdrantEmbeddingPipeline._ensure_collection_exists: returns at once
\* without a client; on any error it drops the client and returns normally
Local_ensure_collection_exists(st, env, k) ==
    IF st.client = "none" THEN Result(st)
    ELSE LET b == EnsureBody(st.colls, env, k, VectorSize)
         IN [Result(st) EXCEPT !.calls = b.calls, !.colls = b.colls,
                               !.client = IF b.ok THEN st.client ELSE "none"]

\* RobustQdrantEmbeddingService._safe_ensure_collection_exists: a connection
\* test (list), then list and create; a 404 returns False, any other error
\* is re-raised
Robust_safe_ensure_collection_exists(st, env, k) ==
    IF Fails(env, k)
    THEN IF env.kind = "404"
         THEN [Result(st) EXCEPT !.ret = "False", !.calls = <<"list">>]
         ELSE [Result(st) EXCEPT !.outcome = StoreError(env), !.calls = <<"list">>]
    ELSE LET b == EnsureBody(st.colls, env, k + 1, VectorSize)
         IN IF b.ok
            THEN [Result(st) EXCEPT !.ret = "True", !.calls = <<"list">> \o b.calls,
                                    !.colls = b.colls]
            ELSE IF env.kind = "404"
                 THEN [Result(st) EXCEPT !.ret = "False", !.calls = <<"list">> \o b.calls]
                 ELSE [Result(st) EXCEPT !.outcome = StoreError(env),
                                         !.calls = <<"list">> \o b.calls]

\* the ensure method of each variant (Prod has none)
EnsureOf(v, st, env, k) ==
    CASE v = "Strict" -> Strict_ensure_collection_exists(st, env, k)
      [] v = "E2E"    -> E2E_ensure_collection_exists(st, env, k)
      [] v = "Fixed"  -> Fixed_ensure_collection_exists(st, env, k)
      [] v = "QInt"   -> QInt_ensure_collection_exists(st, env, k)
      [] v = "TES"    -> TES_ensure_collection_exists(st, env, k)
      [] v = "Local"  -> Local_ensure_collection_exists(st, env, k)
      [] v = "Robust" -> Robust_safe_ensure_collection_exists(st, env, k)

\* whether an ensure result lets its caller go on: it neither raised nor
\* returned False
EnsureSucceeded(r) == r.outcome = "ok" /\ r.ret # "False"


\* ----------------------------------------------------- saving one text
EMBED_DOC == "embed_document"
EMBED_QUERY == "embed_query"

\* {"text": text, "created_at": now, **metadata}
StrictPayload(text, metadata) ==
    update(Put(Put(EmptyDict, "text", text), "created_at", NOW), metadata)

\* StrictEmbeddingPipeline.save_embedding
Strict_save_embedding(st, text, metadata, env, id0) ==
    IF IsBlank(text) THEN [Result(st) EXCEPT !.outcome = "ValueError"]
    ELSE IF Fails(env, 1)
    THEN [Result(st) EXCEPT !.outcome = "ProviderError", !.calls = <<EMBED_DOC>>]
    ELSE LET vecs == cohere_embed(<<text>>, DOCUMENT, env)
             r == [Result(st) EXCEPT !.calls = <<EMBED_DOC>>, !.vecs = vecs]
         IN IF vecs = <<>> THEN [r EXCEPT !.outcome = "IndexError"]
            ELSE IF vecs[1].dim # VectorSize THEN [r EXCEPT !.outcome = "ValueError"]
            ELSE IF IsNone(metadata) THEN [r EXCEPT !.outcome = "TypeError", !.drawn = 1]
            ELSE LET point == PointStruct(id0, vecs[1], StrictPayload(text, Val(metadata)))
                     u == StoreUpsert(st.colls, st.points, CollectionName, <<point>>,
                                      Fails(env, 2))
                     r2 == [r EXCEPT !.calls = <<EMBED_DOC, "upsert">>, !.drawn = 1]
                 IN IF ~u.ok
                    THEN [r2 EXCEPT !.outcome = StoreError(env), !.points = u.points]
                    ELSE [r2 EXCEPT !.ids = <<id0>>, !.points = u.points,
                                    !.written = {id0}]

\* LocalQdrantEmbeddingPipeline.save_embedding: without a client it returns
\* a new uuid although nothing was stored
Local_save_embedding(st, text, metadata, env, id0) ==
    IF IsBlank(text) THEN [Result(st) EXCEPT !.outcome = "ValueError"]
    ELSE IF Fails(env, 1)
    THEN [Result(st) EXCEPT !.outcome = "ProviderError", !.calls = <<EMBED_DOC>>]
    ELSE LET vecs == cohere_embed(<<text>>, DOCUMENT, env)
             r == [Result(st) EXCEPT !.calls = <<EMBED_DOC>>, !.vecs = vecs]
         IN IF vecs = <<>> THEN [r EXCEPT !.outcome = "IndexError"]
            ELSE IF vecs[1].dim # VectorSize THEN [r EXCEPT !.outcome = "ValueError"]
            ELSE IF st.client = "none" THEN [r EXCEPT !.ids = <<id0>>, !.drawn = 1]
            ELSE IF IsNone(metadata) THEN [r EXCEPT !.outcome = "TypeError", !.drawn = 1]
            ELSE LET point == PointStruct(id0, vecs[1], StrictPayload(text, Val(metadata)))
                     u == StoreUpsert(st.colls, st.points, CollectionName, <<point>>,
                                      Fails(env, 2))
                     r2 == [r EXCEPT !.calls = <<EMBED_DOC, "upsert">>, !.drawn = 1]
                 IN IF ~u.ok
                    THEN [r2 EXCEPT !.outcome = StoreError(env), !.points = u.points]
                    ELSE [r2 EXCEPT !.ids = <<id0>>, !.points = u.points,
                                    !.written = {id0}]

\* payload = {"text", "created_at", "id"}; payload.update(metadata) if metadata
E2EPayload(text, metadata, vector_id) ==
    LET payload == Put(Put(Put(EmptyDict, "text", text), "created_at", NOW), "id", vector_id)
    IN IF IsNone(metadata) \/ Val(metadata) = EmptyDict THEN payload
       ELSE update(payload, Val(metadata))

\* EndToEndEmbeddingPipeline.store_embedding (with generate_embedding inlined):
\* the text is not checked
E2E_store_embedding(st, text, metadata, env, id0) ==
    IF Fails(env, 1)
    THEN [Result(st) EXCEPT !.outcome = "ProviderError", !.calls = <<EMBED_DOC>>]
    ELSE LET vecs == cohere_embed(<<text>>, DOCUMENT, env)
             r == [Result(st) EXCEPT !.calls = <<EMBED_DOC>>, !.vecs = vecs]
         IN IF vecs = <<>> THEN [r EXCEPT !.outcome = "IndexError"]
            ELSE IF vecs[1].dim # VectorSize THEN [r EXCEPT !.outcome = "ValueError"]
            ELSE LET point == PointStruct(id0, vecs[1], E2EPayload(text, metadata, id0))
                     u == StoreUpsert(st.colls, st.points, CollectionName, <<point>>,
                                      Fails(env, 2))
                     r2 == [r EXCEPT !.calls = <<EMBED_DOC, "upsert">>, !.drawn = 1]
                 IN IF ~u.ok
                    THEN [r2 EXCEPT !.outcome = StoreError(env), !.points = u.points]
                    ELSE [r2 EXCEPT !.ids = <<id0>>, !.points = u.points,
                                    !.written = {id0}]

\* the three setdefault calls that add the default payload fields
AddDefaults(meta, text, id) ==
    setdefault(setdefault(setdefault(meta, "text", text), "created_at", NOW), "id", id)

\* FixedEmbeddingPipeline.save_embedding: works on a copy of the metadata
Fixed_save_embedding(st, text, metadata, env, id0) ==
    IF IsBlank(text) THEN [Result(st) EXCEPT !.outcome = "ValueError"]
    ELSE IF Fails(env, 1)
    THEN [Result(st) EXCEPT !.outcome = "ProviderError", !.calls = <<EMBED_DOC>>]
    ELSE LET vecs == cohere_embed(<<text>>, DOCUMENT, env)
             r == [Result(st) EXCEPT !.calls = <<EMBED_DOC>>, !.vecs = vecs]
         IN IF vecs = <<>> THEN [r EXCEPT !.outcome = "IndexError"]
            ELSE IF vecs[1].dim # VectorSize THEN [r EXCEPT !.outcome = "ValueError"]
            ELSE IF IsNone(metadata) THEN [r EXCEPT !.outcome = "AttributeError", !.drawn = 1]
            ELSE LET point == PointStruct(id0, vecs[1], AddDefaults(Val(metadata), text, id0))
                     u == StoreUpsert(st.colls, st.points, CollectionName, <<point>>,
                                      Fails(env, 2))
                     r2 == [r EXCEPT !.calls = <<EMBED_DOC, "upsert">>, !.drawn = 1]
                 IN IF ~u.ok
                    THEN [r2 EXCEPT !.outcome = StoreError(env), !.points = u.points]
                    ELSE [r2 EXCEPT !.ids = <<id0>>, !.points = u.points,
                                    !.written = {id0}]

\* save_embedding of working_embedding_save.create_working_embedding_pipeline:
\* the text is not looked at before it is embedded
Working_save_embedding(st, text, metadata, env, id0) ==
    IF Fails(env, 1)
    THEN [Result(st) EXCEPT !.outcome = "ProviderError", !.calls = <<EMBED_DOC>>]
    ELSE LET vecs == cohere_embed(<<text>>, DOCUMENT, env)
             r == [Result(st) EXCEPT !.calls = <<EMBED_DOC>>, !.vecs = vecs]
         IN IF vecs = <<>> THEN [r EXCEPT !.outcome = "IndexError"]
            ELSE IF vecs[1].dim # VectorSize THEN [r EXCEPT !.outcome = "ValueError"]
            ELSE IF IsNone(metadata) THEN [r EXCEPT !.outcome = "TypeError", !.drawn = 1]
            ELSE LET point == PointStruct(id0, vecs[1], StrictPayload(text, Val(metadata)))
                     u == StoreUpsert(st.colls, st.points, CollectionName, <<point>>,
                                      Fails(env, 2))
                     r2 == [r EXCEPT !.calls = <<EMBED_DOC, "upsert">>, !.drawn = 1]
                 IN IF ~u.ok
                    THEN [r2 EXCEPT !.outcome = StoreError(env), !.points = u.points]
                    ELSE [r2 EXCEPT !.ids = <<id0>>, !.points = u.points,
                                    !.written = {id0}]

SaveOf(v, st, text, metadata, env, id0) ==
    CASE v = "Strict" -> Strict_save_embedding(st, text, metadata, env, id0)
      [] v = "Local"  -> Local_save_embedding(st, text, metadata, env, id0)
      [] v = "E2E"    -> E2E_store_embedding(st, text, metadata, env, id0)
      [] v = "Fixed"  -> Fixed_save_embedding(st, text, metadata, env, id0)
      [] v = "Working" -> Working_save_embedding(st, text, metadata, env, id0)

\* ------------------------------------------------- saving a list of texts
\* [str(uuid4()) for _ in range(len(texts))]
NewIds(id0, n) == [i \in 1..n |-> id0 + i - 1]

\* zip(ids, embeddings, metadata_list) turned into points: zip stops at the
\* shortest of the three lists
ZipPoints(ids, embeddings, metas) ==
    [i \in 1..Min(Len(ids), Min(Len(embeddings), Len(metas))) |->
        PointStruct(ids[i], embeddings[i], metas[i])]

IdsOf(batch) == {batch[i].id : i \in 1..Len(batch)}

\* for i, meta in enumerate(metadata_list): the three setdefault calls, made
\* on the caller's dict objects.  When the entries of the list are one and
\* the same object (shared), the first pass fills the defaults in and every
\* later pass finds the keys present.
DefaultsLoop(metas, texts, ids, shared) ==
    [i \in 1..Len(metas) |->
        IF shared THEN AddDefaults(metas[1], texts[1], ids[1])
        ELSE AddDefaults(metas[i], texts[i], ids[i])]

\* TextEmbeddingService.save_embeddings_to_qdrant
TES_save_embeddings_to_qdrant(st, texts, metadata_list, shared, ids, env, id0) ==
    IF texts = <<>> THEN Result(st)
    ELSE IF Fails(env, 1)
    THEN [Result(st) EXCEPT !.outcome = "ProviderError", !.calls = <<EMBED_DOC>>]
    ELSE LET embeddings == cohere_embed(texts, DOCUMENT, env)
             e == TES_ensure_collection_exists(st, env, 2)
             r == [Result(st) EXCEPT !.calls = <<EMBED_DOC>> \o e.calls,
                                     !.vecs = embeddings, !.colls = e.colls]
             k == 2 + Len(e.calls)
         IN IF e.ret = "False" THEN [r EXCEPT !.outcome = "Exception"]
            ELSE LET theIds == IF IsNone(ids) THEN NewIds(id0, Len(texts)) ELSE Val(ids)
                     r1 == [r EXCEPT !.drawn = IF IsNone(ids) THEN Len(texts) ELSE 0]
                 IN IF Len(theIds) # Len(texts) THEN [r1 EXCEPT !.outcome = "ValueError"]
                    ELSE LET metas0 == IF IsNone(metadata_list)
                                       THEN [i \in 1..Len(texts) |-> EmptyDict]
                                       ELSE Val(metadata_list)
                         IN IF Len(metas0) # Len(texts)
                            THEN [r1 EXCEPT !.outcome = "ValueError"]
                            ELSE LET batch == ZipPoints(theIds, embeddings,
                                                  DefaultsLoop(metas0, texts, theIds, shared))
                                     u == StoreUpsert(e.colls, st.points, CollectionName,
                                                      batch, Fails(env, k))
                                     r2 == [r1 EXCEPT !.calls = r.calls \o <<"upsert">>]
                                 IN IF ~u.ok
                                    THEN [r2 EXCEPT !.outcome = StoreError(env), !.points = u.points]
                                    ELSE [r2 EXCEPT !.ids = theIds, !.points = u.points,
                                                    !.written = IdsOf(batch)]

\* RobustQdrantEmbeddingService.save_embeddings_to_qdrant (generate_embeddings
\* inlined): the length of metadata_list is not compared with that of texts
Robust_save_embeddings_to_qdrant(st, texts, metadata_list, shared, env, id0) ==
    IF texts = <<>> THEN [Result(st) EXCEPT !.outcome = "ValueError"]
    ELSE LET e == Robust_safe_ensure_collection_exists(st, env, 1)
             k == 1 + Len(e.calls)
         IN IF e.outcome # "ok" THEN e
            ELSE IF e.ret = "False" THEN [e EXCEPT !.outcome = "Exception", !.ret = "None"]
            ELSE IF Fails(env, k)
            THEN [e EXCEPT !.outcome = "ProviderError", !.ret = "None",
                           !.calls = e.calls \o <<EMBED_DOC>>]
            ELSE LET embeddings == cohere_embed(texts, DOCUMENT, env)
                     theIds == NewIds(id0, Len(texts))
                     metas0 == IF IsNone(metadata_list)
                               THEN [i \in 1..Len(texts) |-> EmptyDict]
                               ELSE Val(metadata_list)
                     r == [e EXCEPT !.ret = "None", !.calls = e.calls \o <<EMBED_DOC>>,
                                    !.vecs = embeddings, !.drawn = Len(texts)]
                 IN IF Len(metas0) > Len(texts) THEN [r EXCEPT !.outcome = "IndexError"]
                    ELSE LET batch == ZipPoints(theIds, embeddings,
                                          DefaultsLoop(metas0, texts, theIds, shared))
                             u == StoreUpsert(e.colls, st.points, CollectionName,
                                              batch, Fails(env, k + 1))
                             r2 == [r EXCEPT !.calls = r.calls \o <<"upsert">>]
                         IN IF ~u.ok
                            THEN [r2 EXCEPT !.outcome = StoreError(env), !.points = u.points]
                            ELSE [r2 EXCEPT !.ids = theIds, !.points = u.points,
                                            !.written = IdsOf(batch)]

\* QdrantEmbeddingService.save_embeddings
QInt_save_embeddings(st, texts, metadata_list, shared, env, id0) ==
    IF texts = <<>> THEN Result(st)
    ELSE IF Fails(env, 1)
    THEN [Result(st) EXCEPT !.outcome = "ProviderError", !.calls = <<EMBED_DOC>>]
    ELSE LET embeddings == cohere_embed(texts, DOCUMENT, env)
             theIds == NewIds(id0, Len(texts))
             metas0 == IF IsNone(metadata_list)
                       THEN [i \in 1..Len(texts) |-> EmptyDict]
                       ELSE Val(metadata_list)
             r == [Result(st) EXCEPT !.calls = <<EMBED_DOC>>, !.vecs = embeddings,
                                     !.drawn = Len(texts)]
         IN IF Len(metas0) # Len(texts) THEN [r EXCEPT !.outcome = "ValueError"]
            ELSE LET batch == ZipPoints(theIds, embeddings,
                                  DefaultsLoop(metas0, texts, theIds, shared))
                     u == StoreUpsert(st.colls, st.points, CollectionName, batch,
                                      Fails(env, 2))
                     r2 == [r EXCEPT !.calls = <<EMBED_DOC, "upsert">>]
                 IN IF ~u.ok
                    THEN [r2 EXCEPT !.outcome = StoreError(env), !.points = u.points]
                    ELSE [r2 EXCEPT !.ids = theIds, !.points = u.points,
                                    !.written = IdsOf(batch)]

BatchSaveOf(v, st, texts, metadata_list, shared, ids, env, id0) ==
    CASE v = "TES"    -> TES_save_embeddings_to_qdrant(st, texts, metadata_list, shared, ids,
                                                       env, id0)
      [] v = "Robust" -> Robust_save_embeddings_to_qdrant(st, texts, metadata_list, shared,
                                                          env, id0)
      [] v = "QInt"   -> QInt_save_embeddings(st, texts, metadata_list, shared, env, id0)


\* ------------------------------------------------------------ retrieving
\* embed the query, check the vector length, search, process the hits:
\* the try-body shared by Strict, Fixed and E2E
RetrieveBody(st, query, top_k, env) ==
    IF Fails(env, 1)
    THEN [Result(st) EXCEPT !.outcome = "ProviderError", !.calls = <<EMBED_QUERY>>]
    ELSE LET vecs == cohere_embed(<<query>>, QUERY, env)
             r == [Result(st) EXCEPT !.calls = <<EMBED_QUERY>>, !.vecs = vecs]
         IN IF vecs = <<>> THEN [r EXCEPT !.outcome = "IndexError"]
            ELSE IF vecs[1].dim # VectorSize THEN [r EXCEPT !.outcome = "ValueError"]
            ELSE LET h == StoreSearch(st.colls, st.points, CollectionName, vecs[1],
                                      top_k, Fails(env, 2))
                     r2 == [r EXCEPT !.calls = <<EMBED_QUERY, "search">>]
                 IN IF ~h.ok THEN [r2 EXCEPT !.outcome = StoreError(env)]
                    ELSE [r2 EXCEPT !.res = process_results(h.hits)]

\* StrictEmbeddingPipeline.retrieve_embedding
Strict_retrieve_embedding(st, query, top_k, env) ==
    IF IsBlank(query) THEN [Result(st) EXCEPT !.outcome = "ValueError"]
    ELSE RetrieveBody(st, query, top_k, env)

\* FixedEmbeddingPipeline.retrieve_embedding
Fixed_retrieve_embedding(st, query, top_k, env) ==
    IF IsBlank(query) THEN [Result(st) EXCEPT !.outcome = "ValueError"]
    ELSE RetrieveBody(st, query, top_k, env)

\* LocalQdrantEmbeddingPipeline.retrieve_embedding: without a client it
\* returns an empty list
Local_retrieve_embedding(st, query, top_k, env) ==
    IF IsBlank(query) THEN [Result(st) EXCEPT !.outcome = "ValueError"]
    ELSE IF Fails(env, 1)
    THEN [Result(st) EXCEPT !.outcome = "ProviderError", !.calls = <<EMBED_QUERY>>]
    ELSE LET vecs == cohere_embed(<<query>>, QUERY, env)
             r == [Result(st) EXCEPT !.calls = <<EMBED_QUERY>>, !.vecs = vecs]
         IN IF vecs = <<>> THEN [r EXCEPT !.outcome = "IndexError"]
            ELSE IF vecs[1].dim # VectorSize THEN [r EXCEPT !.outcome = "ValueError"]
            ELSE IF st.client = "none" THEN r
            ELSE LET h == StoreSearch(st.colls, st.points, CollectionName, vecs[1],
                                      top_k, Fails(env, 2))
                     r2 == [r EXCEPT !.calls = <<EMBED_QUERY, "search">>]
                 IN IF ~h.ok THEN [r2 EXCEPT !.outcome = StoreError(env)]
                    ELSE [r2 EXCEPT !.res = process_results(h.hits)]

\* EndToEndEmbeddingPipeline.retrieve_similar: the query is not checked
E2E_retrieve_similar(st, query, top_k, env) ==
    RetrieveBody(st, query, top_k, env)

\* embed the query and search with whatever vector came back: the try-body
\* of the variants that do not check the vector length; k is the index of
\* the embed call
UncheckedRetrieveBody_DocumentMode(st, query, top_k, env, k) ==
    IF Fails(env, k)
    THEN [Result(st) EXCEPT !.outcome = "ProviderError", !.calls = <<EMBED_QUERY>>]
    ELSE LET vecs == cohere_embed(<<query>>, DOCUMENT, env)
             r == [Result(st) EXCEPT !.calls = <<EMBED_QUERY>>, !.vecs = vecs]
         IN IF vecs = <<>> THEN [r EXCEPT !.outcome = "IndexError"]
            ELSE LET h == StoreSearch(st.colls, st.points, CollectionName, vecs[1],
                                      top_k, Fails(env, k + 1))
                     r2 == [r EXCEPT !.calls = <<EMBED_QUERY, "search">>]
                 IN IF ~h.ok THEN [r2 EXCEPT !.outcome = StoreError(env)]
                    ELSE [r2 EXCEPT !.res = process_results(h.hits)]

UncheckedRetrieveBody(st, query, top_k, env, k) ==
    IF Fails(env, k)
    THEN [Result(st) EXCEPT !.outcome = "ProviderError", !.calls = <<EMBED_QUERY>>]
    ELSE LET vecs == cohere_embed(<<query>>, QUERY, env)
             r == [Result(st) EXCEPT !.calls = <<EMBED_QUERY>>, !.vecs = vecs]
         IN IF vecs = <<>> THEN [r EXCEPT !.outcome = "IndexError"]
            ELSE LET h == StoreSearch(st.colls, st.points, CollectionName, vecs[1],
                                      top_k, Fails(env, k + 1))
                     r2 == [r EXCEPT !.calls = <<EMBED_QUERY, "search">>]
                 IN IF ~h.ok THEN [r2 EXCEPT !.outcome = StoreError(env)]
                    ELSE [r2 EXCEPT !.res = process_results(h.hits)]

\* QdrantEmbeddingService.retrieve_embeddings
QInt_retrieve_embeddings(st, query_text, top_k, env) ==
    IF IsBlank(query_text) THEN [Result(st) EXCEPT !.outcome = "ValueError"]
    ELSE UncheckedRetrieveBody(st, query_text, top_k, env, 1)

\* TextEmbeddingService.retrieve_similar_embeddings (with
\* convert_single_text_to_embedding inlined): no collection check
TES_retrieve_similar_embeddings(st, query_text, top_k, env) ==
    IF IsBlank(query_text) THEN [Result(st) EXCEPT !.outcome = "ValueError"]
    ELSE UncheckedRetrieveBody(st, query_text, top_k, env, 1)

\* POST /search of the API over TextEmbeddingService: blank query text and
\* top_k outside 1..100 are answered with 400 before the service is called;
\* any exception of the service is answered with 500
Api_search_similar(st, query_text, top_k, env) ==
    IF IsBlank(query_text) THEN [Result(st) EXCEPT !.outcome = "HTTP400"]
    ELSE IF top_k < 1 \/ top_k > TopKLimit THEN [Result(st) EXCEPT !.outcome = "HTTP400"]
    ELSE LET r == TES_retrieve_similar_embeddings(st, query_text, top_k, env)
         IN IF r.outcome # "ok" THEN [r EXCEPT !.outcome = "HTTP500"] ELSE r

\* RobustQdrantEmbeddingService.retrieve_similar_embeddings
Robust_retrieve_similar_embeddings(st, query_text, top_k, env) ==
    IF IsBlank(query_text) THEN [Result(st) EXCEPT !.outcome = "ValueError"]
    ELSE LET e == Robust_safe_ensure_collection_exists(st, env, 1)
         IN IF e.outcome # "ok" THEN e
            ELSE IF e.ret = "False" THEN [e EXCEPT !.outcome = "Exception", !.ret = "None"]
            ELSE LET b == UncheckedRetrieveBody([st EXCEPT !.colls = e.colls],
                                                query_text, top_k, env, 1 + Len(e.calls))
                 IN [b EXCEPT !.calls = e.calls \o b.calls]

\* production_rag_chatbot.retrieve_context (embed_text inlined): every
\* exception ends in `return []`.  On success the loop iterates over the
\* QueryResponse object itself, not over its points, so it appends one
\* document without content whatever the hits are.
Prod_retrieve_context(st, query, top_k, env) ==
    LET b == UncheckedRetrieveBody(st, query, top_k, env, 1)
    IN IF b.outcome # "ok" THEN [b EXCEPT !.outcome = "ok", !.res = <<>>]
       ELSE [b EXCEPT !.res = <<[id |-> 0, score |-> 0, payload |-> EmptyDict,
                                 text |-> <<>>]>>]

\* retrieve_embedding of create_working_embedding_pipeline
Working_retrieve_embedding(st, query, top_k, env) == RetrieveBody(st, query, top_k, env)

RetrieveOf(v, st, query, top_k, env) ==
    CASE v = "Strict" -> Strict_retrieve_embedding(st, query, top_k, env)
      [] v = "Fixed"  -> Fixed_retrieve_embedding(st, query, top_k, env)
      [] v = "Local"  -> Local_retrieve_embedding(st, query, top_k, env)
      [] v = "E2E"    -> E2E_retrieve_similar(st, query, top_k, env)
      [] v = "QInt"   -> QInt_retrieve_embeddings(st, query, top_k, env)
      [] v = "TES"    -> TES_retrieve_similar_embeddings(st, query, top_k, env)
      [] v = "Robust" -> Robust_retrieve_similar_embeddings(st, query, top_k, env)
      [] v = "Prod"   -> Prod_retrieve_context(st, query, top_k, env)
      [] v = "Working" -> Working_retrieve_embedding(st, query, top_k, env)

\* ---------------------------------------------------------------- counting
\* TextEmbeddingService.get_embedding_count: an exception is logged and raised
TES_get_embedding_count(st, env) ==
    IF st.client = "none" THEN [Result(st) EXCEPT !.outcome = "AttributeError"]
    ELSE LET c == StoreCount(st.colls, st.points, CollectionName, Fails(env, 1))
             r == [Result(st) EXCEPT !.calls = <<"count">>]
         IN IF ~c.ok THEN [r EXCEPT !.outcome = StoreError(env)]
            ELSE [r EXCEPT !.count = Some(c.count)]

\* EndToEndEmbeddingPipeline.get_collection_count: an exception is logged and
\* 0 is returned
E2E_get_collection_count(st, env) ==
    IF st.client = "none" THEN [Result(st) EXCEPT !.count = Some(0)]
    ELSE LET c == StoreCount(st.colls, st.points, CollectionName, Fails(env, 1))
         IN [Result(st) EXCEPT !.calls = <<"count">>, !.count = Some(c.count)]


CountOf(v, st, env) ==
    CASE v = "TES" -> TES_get_embedding_count(st, env)
      [] v = "E2E" -> E2E_get_collection_count(st, env)

\* ---------------------------------------------------------------- deleting
\* TextEmbeddingService.delete_embeddings_by_ids: returns True, an exception
\* is logged and raised
TES_delete_embeddings_by_ids(st, ids, env) ==
    IF st.client = "none" THEN [Result(st) EXCEPT !.outcome = "AttributeError"]
    ELSE LET d == StoreDelete(st.colls, st.points, CollectionName, ids, Fails(env, 1))
             r == [Result(st) EXCEPT !.calls = <<"delete">>]
         IN IF ~d.ok THEN [r EXCEPT !.outcome = StoreError(env)]
            ELSE [r EXCEPT !.ret = "True", !.points = d.points]

\* ---------------------------------------------------------- health checks
\* QdrantEmbeddingService.health_check: every exception is caught
QInt_health_check(st, env) ==
    IF st.client = "none" THEN [Result(st) EXCEPT !.ret = "unhealthy"]
    ELSE IF Fails(env, 1) THEN [Result(st) EXCEPT !.ret = "unhealthy", !.calls = <<"list">>]
    ELSE IF ~collection_exists(st.colls, CollectionName)
    THEN [Result(st) EXCEPT !.ret = "unhealthy", !.calls = <<"list">>]
    ELSE LET c == StoreCount(st.colls, st.points, CollectionName, Fails(env, 2))
             r == [Result(st) EXCEPT !.calls = <<"list", "count">>]
         IN IF ~c.ok THEN [r EXCEPT !.ret = "unhealthy"]
            ELSE [r EXCEPT !.ret = "healthy", !.count = Some(c.count)]

\* RobustQdrantEmbeddingService.get_collection_status: every exception is
\* caught; a 404 of the store is reported as unreachable; every answer has
\* a vector_count, 0 unless the count was obtained
Robust_get_collection_status(st, env) ==
    LET failed == IF env.kind = "404" THEN "unreachable" ELSE "error"
        r0 == [Result(st) EXCEPT !.count = Some(0)]
    IN IF st.client = "none" THEN [r0 EXCEPT !.ret = "error"]
       ELSE IF Fails(env, 1) THEN [r0 EXCEPT !.ret = failed, !.calls = <<"list">>]
       ELSE IF ~collection_exists(st.colls, CollectionName)
       THEN [r0 EXCEPT !.ret = "missing", !.calls = <<"list">>]
       ELSE LET c == StoreCount(st.colls, st.points, CollectionName, Fails(env, 2))
                r == [r0 EXCEPT !.calls = <<"list", "count">>]
            IN IF ~c.ok THEN [r EXCEPT !.ret = failed]
               ELSE [r EXCEPT !.ret = "available", !.count = Some(c.count)]

\* GET /health of the API: a constant answer, the store is not asked
Api_health_check(st, env) == [Result(st) EXCEPT !.ret = "healthy"]


HealthOf(v, st, env) ==
    CASE v = "QInt"   -> QInt_health_check(st, env)
      [] v = "Robust" -> Robust_get_collection_status(st, env)
      [] v = "TES"    -> Api_health_check(st, env)


\* ------------------------------------------------------------- embedding
\* TextEmbeddingService.convert_text_to_embeddings: returns the provider's
\* list as it is
convert_text_to_embeddings(st, texts, env) ==
    IF texts = <<>> THEN Result(st)
    ELSE IF Fails(env, 1)
    THEN [Result(st) EXCEPT !.outcome = "ProviderError", !.calls = <<EMBED_DOC>>]
    ELSE [Result(st) EXCEPT !.calls = <<EMBED_DOC>>,
                            !.vecs = cohere_embed(texts, DOCUMENT, env)]


\* -------------------------------------------------------- API endpoints

\* POST /embed: an empty list and more than 100 texts are answered with 400
\* before the service is called; any exception of the service with 500
Api_embed_texts(st, texts, env) ==
    IF texts = <<>> THEN [Result(st) EXCEPT !.outcome = "HTTP400"]
    ELSE IF Len(texts) > TextCountLimit THEN [Result(st) EXCEPT !.outcome = "HTTP400"]
    ELSE LET r == convert_text_to_embeddings(st, texts, env)
         IN IF r.outcome # "ok" THEN [r EXCEPT !.outcome = "HTTP500"] ELSE r

Api_save_embeddings_ValueErrorAs400(st, texts, metadata_list, env, id0) ==
    IF texts = <<>> THEN [Result(st) EXCEPT !.outcome = "HTTP400"]
    ELSE IF Len(texts) > TextCountLimit THEN [Result(st) EXCEPT !.outcome = "HTTP400"]
    ELSE LET r == TES_save_embeddings_to_qdrant(st, texts, metadata_list, FALSE, None,
                                                env, id0)
         IN IF r.outcome = "ValueError" THEN [r EXCEPT !.outcome = "HTTP400"]
            ELSE IF r.outcome # "ok" THEN [r EXCEPT !.outcome = "HTTP500"] ELSE r

\* POST /save: the same two checks, then save_embeddings_to_qdrant with the
\* request's texts and metadata_list and no ids
Api_save_embeddings(st, texts, metadata_list, env, id0) ==
    IF texts = <<>> THEN [Result(st) EXCEPT !.outcome = "HTTP400"]
    ELSE IF Len(texts) > TextCountLimit THEN [Result(st) EXCEPT !.outcome = "HTTP400"]
    ELSE LET r == TES_save_embeddings_to_qdrant(st, texts, metadata_list, FALSE, None,
                                                env, id0)
         IN IF r.outcome # "ok" THEN [r EXCEPT !.outcome = "HTTP500"] ELSE r

\* POST /delete: an empty id list is answered with 400; a service that
\* raised, or that did not answer True, with 500
Api_delete_embeddings(st, ids, env) ==
    IF ids = <<>> THEN [Result(st) EXCEPT !.outcome = "HTTP400"]
    ELSE LET r == TES_delete_embeddings_by_ids(st, ids, env)
         IN IF r.outcome # "ok" THEN [r EXCEPT !.outcome = "HTTP500"]
            ELSE IF r.ret = "True" THEN r
            ELSE [r EXCEPT !.outcome = "HTTP500"]

\* ---------------------------------------------------------- construction
\* What __init__ leaves behind: whether the object exists, its client, the
\* collections of both stores, the calls it issued and whether its
\* collection check found or created the collection.
Built(ok, cl, cs, calls, outcome, chk) ==
    [constructed |-> ok, client |-> cl, colls |-> cs, calls |-> calls, outcome |-> outcome,
     checked |-> chk]

\* __init__ of the variants that check the collection at startup and let
\* the error out (Strict, E2E, Fixed, QInt)
Checked_init(v, cs, env) ==
    LET e == EnsureOf(v, [colls |-> cs["cloud"], points |-> {}, client |-> "cloud"], env, 1)
    IN Built(e.outcome = "ok", IF e.outcome = "ok" THEN "cloud" ELSE "none",
             [cs EXCEPT !["cloud"] = e.colls], e.calls, e.outcome, EnsureSucceeded(e))

\* TextEmbeddingService.__init__ and production_rag_chatbot.init_services:
\* clients only, no call to the store
Plain_init(cs) == Built(TRUE, "cloud", cs, <<>>, "ok", FALSE)

\* RobustQdrantEmbeddingService.__init__ (check_connection_on_startup=True):
\* the value returned by _safe_ensure_collection_exists is not looked at
Robust_init(cs, env) ==
    LET e == Robust_safe_ensure_collection_exists(
                 [colls |-> cs["cloud"], points |-> {}, client |-> "cloud"], env, 1)
    IN Built(e.outcome = "ok", IF e.outcome = "ok" THEN "cloud" ELSE "none",
             [cs EXCEPT !["cloud"] = e.colls], e.calls, e.outcome, EnsureSucceeded(e))

\* LocalQdrantEmbeddingPipeline.__init__ with both credentials present: call 1
\* of envC is the construction of the cloud client, call 1 of envL that of
\* the local client.  Only an exception reaches the fallback, and
\* _ensure_collection_exists raises none.
Local_init(cs, use_local_fallback, envC, envL) ==
    IF ~Fails(envC, 1)
    THEN LET e == Local_ensure_collection_exists(
                     [colls |-> cs["cloud"], points |-> {}, client |-> "cloud"], envC, 2)
         IN Built(TRUE, e.client, [cs EXCEPT !["cloud"] = e.colls],
                  <<"connect_cloud">> \o e.calls, "ok", e.client # "none")
    ELSE IF ~use_local_fallback
    THEN Built(FALSE, "none", cs, <<"connect_cloud">>, StoreError(envC), FALSE)
    ELSE IF Fails(envL, 1)
    THEN Built(TRUE, "none", cs, <<"connect_cloud", "connect_local">>, "ok", FALSE)
    ELSE LET e == Local_ensure_collection_exists(
                     [colls |-> cs["local"], points |-> {}, client |-> "local"], envL, 2)
         IN Built(TRUE, e.client, [cs EXCEPT !["local"] = e.colls],
                  <<"connect_cloud", "connect_local">> \o e.calls, "ok", e.client # "none")

\* The credentials __init__ reads from the environment: COHERE_API_KEY,
\* QDRANT_URL and QDRANT_API_KEY.
Creds == {"cohere", "url", "key"}


\* __init__ of Strict, E2E and Fixed: any credential absent raises ValueError
\* before a client is made
EnvChecked_init(v, cs, creds, env) ==
    IF creds # Creds THEN Built(FALSE, "none", cs, <<>>, "ValueError", FALSE)
    ELSE Checked_init(v, cs, env)

\* create_working_embedding_pipeline (QDRANT_COLLECTION left at its default):
\* when the list or the create call fails, the collection check is made a
\* second time, and only a failure of the second check is raised
Working_init(cs, creds, env) ==
    IF creds # Creds THEN Built(FALSE, "none", cs, <<>>, "ValueError", FALSE)
    ELSE LET b1 == EnsureBody(cs["cloud"], env, 1, VectorSize)
         IN IF b1.ok
            THEN Built(TRUE, "cloud", [cs EXCEPT !["cloud"] = b1.colls], b1.calls, "ok", TRUE)
            ELSE LET b2 == EnsureBody(b1.colls, env, 1 + Len(b1.calls), VectorSize)
                 IN Built(b2.ok, IF b2.ok THEN "cloud" ELSE "none",
                          [cs EXCEPT !["cloud"] = b2.colls], b1.calls \o b2.calls,
                          IF b2.ok THEN "ok" ELSE StoreError(env), b2.ok)

\* LocalQdrantEmbeddingPipeline.__init__: only COHERE_API_KEY is required;
\* without QDRANT_URL or QDRANT_API_KEY the object is made without a client
Local_env_init(cs, creds, use_local_fallback, envC, envL) ==
    IF "cohere" \notin creds THEN Built(FALSE, "none", cs, <<>>, "ValueError", FALSE)
    ELSE IF "url" \notin creds \/ "key" \notin creds
    THEN Built(TRUE, "none", cs, <<>>, "ok", FALSE)
    ELSE Local_init(cs, use_local_fallback, envC, envL)

\* ------------------------------------------------------------ input sets

CategoryAI == Put(EmptyDict, "category", "AI")
TextOverride == Put(Put(EmptyDict, "text", <<"z">>), "created_at", "earlier")

\* the caller's metadata list, cut to n entries
CallerMeta(i) == IF i % 3 = 1 THEN CategoryAI ELSE IF i % 3 = 2 THEN TextOverride ELSE EmptyDict
MetaLists ==
    {None} \cup {Some([i \in 1..n |-> CallerMeta(i)]) : n \in 0..(MaxBatch + 1)}
           \cup {Some([i \in 1..n |-> CategoryAI]) : n \in 2..MaxBatch}

\* whether the entries of a metadata list can be one and the same dict object
\* ([m] * n): it has several entries and they are equal
CanShare(metadata_list) ==
    /\ ~IsNone(metadata_list)
    /\ Len(Val(metadata_list)) >= 2
    /\ \A i \in 1..Len(Val(metadata_list)) : Val(metadata_list)[i] = Val(metadata_list)[1]

Lists(S, n) == UNION {[1..m -> S] : m \in 0..n}
TextLists == Lists(Texts, MaxBatch)


\* the id lists passed to a delete: ids a save has or could have returned
DeleteIds == {<<>>} \cup {<<i>> : i \in Ids} \cup {NewIds(1, n) : n \in 2..Min(MaxBatch, MaxIds)}

TopKs == 1..MaxK

\* limits a caller can pass that lie outside 1..100
OutOfRangeKs == {0, TopKLimit + 1}

\* The arguments of a caller that ingests the chunks of one document and
\* then asks about it: texts that are not blank, each with its metadata.
NominalTexts == {t \in Texts : ~IsBlank(t)}
CallerText(i) == IF i % 2 = 1 THEN <<"a">> ELSE <<SP, "b">>

\* how the provider answers: the number of vectors relative to the number
\* of texts, and their length
ProvShapes == {<<0, VectorSize>>, <<-1, VectorSize>>, <<1, VectorSize>>, <<0, VectorSize + 1>>}

\* the external calls a method of variant v can make
CallsOf(v) == IF v = "Robust" THEN MaxCalls ELSE IF v = "TES" THEN MaxCalls - 1 ELSE 2
KindsOf(v) == IF v = "Robust" THEN {"404", "err"} ELSE {"err"}

\* Environments: either every call succeeds, or exactly one call fails.
NoFault == [failAt |-> 0, kind |-> "err", provN |-> 0, provDim |-> VectorSize]
StoreEnvs(v, n) ==
    {NoFault} \cup {[NoFault EXCEPT !.failAt = f, !.kind = kd] : f \in 1..n, kd \in KindsOf(v)}
\* ... or every call succeeds and the provider answers with some shape.
FullEnvs(v, n) ==
    StoreEnvs(v, n) \cup {[NoFault EXCEPT !.provN = sh[1], !.provDim = sh[2]] : sh \in ProvShapes}


\* ------------------------------------------------------------------ state
VARIABLES
    variant,      \* the class of the service object of this behaviour
    constructed,  \* whether __init__ has returned without raising
    client,       \* self.qdrant_client: "cloud", "local" or "none" (None)
    colls,        \* per store: the list get_collections() answers with
    points,       \* per store: the points of the collection text_embeddings
    nextId,       \* the next value uuid4() hands out
    last,         \* the call that has just returned: arguments and result
    procs,        \* two _ensure_collection_exists calls in flight at once
    checked,      \* __init__ listed the collections and found or created ours
    elog,         \* the _ensure_collection_exists calls made on the object
    saved,        \* per id a save has returned: the text and metadata it was given
    storeFailed,  \* a request to the store failed in the latest save or retrieve
    saves,        \* two save calls in flight at once
    held          \* the metadata dicts a caller keeps a reference to after a save

vars ==
    <<variant, constructed, client, colls, points, nextId, last, procs, checked, elog,
      saved, storeFailed, saves, held>>

\* the two callers whose _ensure_collection_exists calls overlap
Procs == {"p", "q"}
NotStarted == [pc |-> "start", outcome |-> "ok", ret |-> "None", client |-> "cloud",
               faulted |-> FALSE, calls |-> <<>>]

\* a save call that has not begun: caller p saves one text with a category,
\* caller q another text without metadata
SaveNotStarted(p) ==
    [pc |-> "start", outcome |-> "ok", id |-> 0, vec |-> None,
     text |-> IF p = "p" THEN CallerText(1) ELSE CallerText(2),
     meta |-> IF p = "p" THEN CategoryAI ELSE EmptyDict]

\* no call has returned that the caller has not taken yet
Idle ==
    [op |-> "idle", outcome |-> "ok", ret |-> "None", calls |-> <<>>, ids |-> <<>>,
     res |-> <<>>, vecs |-> <<>>, written |-> {}, texts |-> <<>>, meta |-> None,
     metaList |-> None, idsArg |-> None, k |-> 0, hadClient |-> "none",
     existed |-> FALSE, env |-> NoFault, shared |-> FALSE, count |-> None,
     creds |-> Creds, fallback |-> TRUE, reused |-> FALSE]

\* what the object sees of the store its client is connected to
St ==
    [colls |-> IF client = "none" THEN <<>> ELSE colls[client],
     points |-> IF client = "none" THEN {} ELSE points[client],
     client |-> client]

\* the record of a returned call
Returned(op, r, env) ==
    [Idle EXCEPT !.op = op, !.outcome = r.outcome, !.ret = r.ret, !.calls = r.calls,
                 !.ids = r.ids, !.res = r.res, !.vecs = r.vecs, !.written = r.written,
                 !.hadClient = client, !.env = env, !.count = r.count,
                 !.existed = collection_exists(St.colls, CollectionName)]

\* the effect of a method result on the object and on its store
Apply(r) ==
    /\ client' = r.client
    /\ colls' = IF client = "none" THEN colls ELSE [colls EXCEPT ![client] = r.colls]
    /\ points' = IF client = "none" THEN points ELSE [points EXCEPT ![client] = r.points]
    /\ nextId' = nextId + r.drawn

\* other programs use the same store: it may already hold another collection,
\* our collection as an earlier run made it, or a collection of our name made
\* with other parameters
InitColls ==
    {<<>>,
     <<[name |-> "other_collection", size |-> VectorSize, distance |-> "Cosine"]>>,
     <<[name |-> CollectionName, size |-> VectorSize, distance |-> "Cosine"]>>,
     <<[name |-> CollectionName, size |-> VectorSize + 1, distance |-> "Dot"]>>}

Init ==
    /\ variant \in Variants
    /\ constructed = FALSE
    /\ client = "none"
    /\ colls \in {[s \in Stores |-> IF s = "cloud" THEN c ELSE <<>>] : c \in InitColls}
    /\ points = [s \in Stores |-> {}]
    /\ nextId = 1
    /\ last = Idle
    /\ procs = [p \in Procs |-> NotStarted]
    /\ checked = FALSE
    /\ elog = <<>>
    /\ saved = [i \in Ids |-> None]
    /\ storeFailed = FALSE
    /\ saves = [p \in Procs |-> SaveNotStarted(p)]
    /\ held = None

\* the constructor of the variant
Construct ==
    /\ ~constructed
    /\ last = Idle
    /\ \E envC \in StoreEnvs(variant, 3), envL \in StoreEnvs(variant, 3),
          use_local_fallback \in BOOLEAN, creds \in {Creds} \cup {Creds \ {c} : c \in Creds} :
        /\ variant # "Local" => (envL = envC /\ use_local_fallback)
        /\ variant \in BatchVariants \cup {"Prod"} => creds = Creds
        /\ creds # Creds => (envC = NoFault /\ envL = NoFault /\ use_local_fallback)
        /\ LET b == CASE variant \in {"Strict", "E2E", "Fixed"} ->
                            EnvChecked_init(variant, colls, creds, envC)
                      [] variant = "QInt" -> Checked_init(variant, colls, envC)
                      [] variant \in {"TES", "Prod"} -> Plain_init(colls)
                      [] variant = "Robust" -> Robust_init(colls, envC)
                      [] variant = "Working" -> Working_init(colls, creds, envC)
                      [] variant = "Local" ->
                            Local_env_init(colls, creds, use_local_fallback, envC, envL)
           IN /\ constructed' = b.constructed
              /\ client' = b.client
              /\ colls' = b.colls
              /\ checked' = b.checked
              /\ last' = [Idle EXCEPT !.op = "construct", !.outcome = b.outcome,
                                      !.calls = b.calls, !.env = envC, !.creds = creds,
                                      !.fallback = use_local_fallback]
    /\ UNCHANGED <<held, variant, points, nextId, procs, elog, saved, storeFailed, saves>>

\* _ensure_collection_exists called on the object
EnsureCall ==
    /\ constructed
    /\ variant \notin {"Prod", "Working"}
    /\ last = Idle
    /\ \E env \in StoreEnvs(variant, CallsOf(variant)) :
        LET r == EnsureOf(variant, St, env, 1)
        IN /\ Apply(r)
           /\ last' = Returned("ensure", r, env)
    /\ UNCHANGED <<held, variant, constructed, procs, checked>>

EnsureReady == EnsureCall /\ UNCHANGED <<elog, saved, storeFailed, saves>>

\* the same call, kept in the call log
EnsureLogged ==
    /\ Len(elog) < MaxEnsures
    /\ EnsureCall
    /\ elog' = Append(elog, last')
    /\ UNCHANGED <<saved, storeFailed, saves>>

\* whether the call that failed in a method was a request to the store
StoreCallFailed(r, env) ==
    /\ env.failAt \in 1..Len(r.calls)
    /\ r.calls[env.failAt] \in {"list", "create", "upsert", "search"}


\* the ids a save returns, each with the text and the metadata of its position
\* in the arguments
Remember(ids, texts, metas) ==
    [i \in Ids |->
        IF \E j \in 1..Len(ids) : ids[j] = i
        THEN LET j == CHOOSE n \in 1..Len(ids) : ids[n] = i
             IN Some([text |-> texts[j],
                      meta |-> IF j <= Len(metas) THEN metas[j] ELSE EmptyDict])
        ELSE saved[i]]

\* save_embedding / store_embedding, its arguments drawn from the given sets
SaveTextFrom(TS, MS) ==
    /\ constructed
    /\ variant \in Variants \ (BatchVariants \cup {"Prod"})
    /\ last = Idle
    /\ nextId <= MaxIds
    /\ \E text \in TS, metadata \in MS, env \in FullEnvs(variant, CallsOf(variant)) :
        LET r == SaveOf(variant, St, text, metadata, env, nextId)
        IN /\ Apply(r)
           /\ last' = [Returned("save", r, env) EXCEPT !.texts = <<text>>, !.meta = metadata]
           /\ saved' = Remember(r.ids, <<text>>, <<IF IsNone(metadata) THEN EmptyDict ELSE Val(metadata)>>)
           /\ storeFailed' = StoreCallFailed(r, env)
    /\ UNCHANGED <<held, variant, constructed, procs, checked, elog, saves>>

SaveText ==
    SaveTextFrom(Texts, {None} \cup {Some(m) : m \in {EmptyDict, CategoryAI, TextOverride}})

\* save_embeddings_to_qdrant / save_embeddings.  Ids the caller supplies are
\* taken from the values uuid4 has handed out or would hand out next, and
\* uuid4 never hands out a value the caller has supplied.
SaveTextsFrom(TL, ML, IA) ==
    /\ constructed
    /\ variant \in BatchVariants
    /\ last = Idle
    /\ \E texts \in TL, metadata_list \in ML, shared \in BOOLEAN, ids \in IA,
          env \in FullEnvs(variant, CallsOf(variant)) :
        /\ nextId + Len(texts) - 1 <= MaxIds
        /\ variant # "TES" => ids = None
        /\ shared => CanShare(metadata_list)
        /\ LET r == BatchSaveOf(variant, St, texts, metadata_list, shared, ids, env, nextId)
           IN /\ Apply([r EXCEPT !.drawn = IF ids = None THEN r.drawn ELSE Len(texts)])
              /\ last' = [Returned("save_batch", r, env) EXCEPT !.texts = texts,
                              !.metaList = metadata_list, !.idsArg = ids,
                              !.shared = shared]
              /\ saved' = Remember(r.ids, texts,
                                   IF IsNone(metadata_list) THEN <<>>
                                   ELSE Val(metadata_list))
              /\ storeFailed' = StoreCallFailed(r, env)
    /\ UNCHANGED <<held, variant, constructed, procs, checked, elog, saves>>

SaveTexts ==
    SaveTextsFrom(TextLists, MetaLists,
                  {None} \cup {Some(NewIds(1, n)) : n \in 1..Min(MaxBatch, MaxIds)})

\* retrieve_embedding / retrieve_similar / retrieve_context, its arguments
\* drawn from the given sets
RetrieveFrom(QS, KS) ==
    /\ constructed
    /\ last = Idle
    /\ \E query \in QS, top_k \in KS, env \in FullEnvs(variant, CallsOf(variant)) :
        LET r == RetrieveOf(variant, St, query, top_k, env)
        IN /\ Apply(r)
           /\ last' = [Returned("retrieve", r, env) EXCEPT !.texts = <<query>>, !.k = top_k]
           /\ storeFailed' = StoreCallFailed(r, env)
    /\ UNCHANGED <<held, variant, constructed, procs, checked, elog, saved, saves>>

Retrieve == RetrieveFrom(Texts, TopKs \cup OutOfRangeKs)

\* a request to POST /search
ApiSearch ==
    /\ constructed
    /\ variant = "TES"
    /\ last = Idle
    /\ \E query \in Texts, top_k \in TopKs \cup OutOfRangeKs,
          env \in FullEnvs(variant, CallsOf(variant)) :
        LET r == Api_search_similar(St, query, top_k, env)
        IN /\ Apply(r)
           /\ last' = [Returned("api_search", r, env) EXCEPT !.texts = <<query>>,
                                                             !.k = top_k]
           /\ storeFailed' = StoreCallFailed(r, env)
    /\ UNCHANGED <<held, variant, constructed, procs, checked, elog, saved, saves>>

\* health_check / get_collection_status / GET /health, in an environment
\* where the store answers or one of its calls fails
Health ==
    /\ constructed
    /\ variant \in {"QInt", "Robust", "TES"}
    /\ last = Idle
    /\ \E env \in StoreEnvs(variant, 2) :
        LET r == HealthOf(variant, St, env)
        IN /\ Apply(r)
           /\ last' = Returned("health", r, env)
    /\ UNCHANGED <<held, variant, constructed, procs, checked, elog, saved, storeFailed, saves>>

\* get_embedding_count / get_collection_count
Count ==
    /\ constructed
    /\ variant \in {"TES", "E2E"}
    /\ last = Idle
    /\ \E env \in StoreEnvs(variant, 1) :
        LET r == CountOf(variant, St, env)
        IN /\ Apply(r)
           /\ last' = Returned("count", r, env)
    /\ UNCHANGED <<held, variant, constructed, procs, checked, elog, saved, storeFailed, saves>>

\* delete_embeddings_by_ids
Delete ==
    /\ constructed
    /\ variant = "TES"
    /\ last = Idle
    /\ \E ids \in DeleteIds, env \in StoreEnvs(variant, 1) :
        LET r == TES_delete_embeddings_by_ids(St, ids, env)
        IN /\ Apply(r)
           /\ last' = [Returned("delete", r, env) EXCEPT !.idsArg = Some(ids)]
    /\ UNCHANGED <<held, variant, constructed, procs, checked, elog, saved, storeFailed, saves>>

\* TextEmbeddingService.convert_text_to_embeddings
Embed ==
    /\ constructed
    /\ variant = "TES"
    /\ last = Idle
    /\ \E texts \in TextLists, env \in FullEnvs(variant, 1) :
        LET r == convert_text_to_embeddings(St, texts, env)
        IN /\ Apply(r)
           /\ last' = [Returned("embed", r, env) EXCEPT !.texts = texts]
    /\ UNCHANGED <<held, variant, constructed, procs, checked, elog, saved, storeFailed, saves>>

\* the caller takes the result of the call that returned
Return ==
    /\ last # Idle
    /\ last' = Idle
    /\ UNCHANGED <<held, variant, constructed, client, colls, points, nextId, procs, checked, elog, saved, storeFailed, saves>>

Next ==
    \/ Construct
    \/ EnsureReady
    \/ SaveText
    \/ SaveTexts
    \/ Retrieve
    \/ ApiSearch
    \/ Health
    \/ Count
    \/ Embed
    \/ Return

Spec == Init /\ [][Next]_vars

\* the life of the records of a TextEmbeddingService: batch saves, with
\* generated or supplied ids, and deletes by id
\* ---- a caller that passes the same metadata dicts to successive saves ----

\* the caller's dicts once the save has returned or raised: the setdefault loop
\* writes into the very objects of metadata_list, and it has run whenever the
\* save went on to its upsert
CallerDictsAfter(r, metas, texts, ids) ==
    IF \E j \in 1..Len(r.calls) : r.calls[j] = "upsert"
    THEN DefaultsLoop(metas, texts, ids, FALSE)
    ELSE metas

SaveTextsHeld ==
    /\ constructed
    /\ variant \in BatchVariants
    /\ last = Idle
    /\ \E texts \in TextLists, fresh \in Lists({CategoryAI, EmptyDict}, MaxBatch) \ {<<>>},
          env \in FullEnvs(variant, CallsOf(variant)) :
        LET metas == IF IsNone(held) THEN fresh ELSE Val(held)
            r == BatchSaveOf(variant, St, texts, Some(metas), FALSE, None, env, nextId)
        IN /\ Len(texts) = Len(metas)
           /\ nextId + Len(texts) - 1 <= MaxIds
           /\ Apply(r)
           /\ last' = [Returned("save_batch", r, env) EXCEPT !.texts = texts,
                           !.metaList = Some(metas), !.reused = ~IsNone(held)]
           /\ held' = Some(CallerDictsAfter(r, metas, texts, NewIds(nextId, Len(texts))))
           /\ saved' = Remember(r.ids, texts, metas)
           /\ storeFailed' = StoreCallFailed(r, env)
    /\ UNCHANGED <<variant, constructed, procs, checked, elog, saves>>

NextHeld ==
    \/ Construct
    \/ SaveTextsHeld
    \/ Return

InitHeld == Init /\ variant \in BatchVariants

HeldSpec == InitHeld /\ [][NextHeld]_vars

\* ------------------------------------------------ requests to the API

\* request bodies: no text, one text, two texts
ApiTextLists == {<<>>, <<<<"a">>>>, <<<<"a">>, <<SP, "b">>>>}

\* the behaviours of a TextEmbeddingService object
InitTES == Init /\ variant = "TES"

ApiEmbed ==
    /\ constructed
    /\ variant = "TES"
    /\ last = Idle
    /\ \E texts \in ApiTextLists, env \in FullEnvs(variant, 1) :
        LET r == Api_embed_texts(St, texts, env)
        IN /\ Apply(r)
           /\ last' = [Returned("api_embed", r, env) EXCEPT !.texts = texts]
    /\ UNCHANGED <<held, variant, constructed, procs, checked, elog, saved, storeFailed, saves>>

ApiSave ==
    /\ constructed
    /\ variant = "TES"
    /\ last = Idle
    /\ \E texts \in ApiTextLists, metadata_list \in {None, Some(<<>>), Some(<<CategoryAI>>)},
          env \in FullEnvs(variant, CallsOf(variant)) :
        /\ nextId + Len(texts) - 1 <= MaxIds
        /\ LET r == Api_save_embeddings(St, texts, metadata_list, env, nextId)
           IN /\ Apply(r)
              /\ last' = [Returned("api_save", r, env) EXCEPT !.texts = texts,
                              !.metaList = metadata_list]
              /\ saved' = Remember(r.ids, texts,
                                   IF IsNone(metadata_list) THEN <<>>
                                   ELSE Val(metadata_list))
              /\ storeFailed' = StoreCallFailed(r, env)
    /\ UNCHANGED <<held, variant, constructed, procs, checked, elog, saves>>

ApiDelete ==
    /\ constructed
    /\ variant = "TES"
    /\ last = Idle
    /\ \E ids \in DeleteIds, env \in StoreEnvs(variant, 1) :
        LET r == Api_delete_embeddings(St, ids, env)
        IN /\ Apply(r)
           /\ last' = [Returned("api_delete", r, env) EXCEPT !.idsArg = Some(ids)]
    /\ UNCHANGED <<held, variant, constructed, procs, checked, elog, saved, storeFailed, saves>>

NextApi ==
    \/ Construct
    \/ ApiEmbed
    \/ ApiSave
    \/ ApiSearch
    \/ ApiDelete
    \/ Return

ApiSpec == InitTES /\ [][NextApi]_vars

NextLifecycle ==
    \/ Construct
    \/ SaveTexts
    \/ Delete
    \/ Return

LifecycleSpec == InitTES /\ [][NextLifecycle]_vars

\* construction followed by logged _ensure_collection_exists calls only
NextEnsure ==
    \/ Construct
    \/ EnsureLogged
    \/ Return

EnsureSpec == Init /\ [][NextEnsure]_vars

\* the same methods called with the arguments of the ingesting caller
SaveTextN == SaveTextFrom(NominalTexts, {Some(CategoryAI)})
SaveTextsN ==
    SaveTextsFrom({[i \in 1..n |-> CallerText(i)] : n \in 1..MaxBatch},
                  {None} \cup {Some([i \in 1..n |-> CallerMeta(i)]) : n \in 1..MaxBatch},
                  {None})
RetrieveN == RetrieveFrom(NominalTexts, TopKs)

NextNominal ==
    \/ Construct
    \/ EnsureReady
    \/ SaveTextN
    \/ SaveTextsN
    \/ RetrieveN
    \/ Health
    \/ Count
    \/ Return

NominalSpec == Init /\ [][NextNominal]_vars


\* ------------------------------------ overlapping collection checks
\* Two callers run _ensure_collection_exists of the variant against the
\* cloud store at the same time; every call to the store is one step.

\* what the method reports when a call to the store fails: the variant's
\* except clauses, taken from its sequential definition
OnStoreFailure(v, kind) ==
    LET r == EnsureOf(v, [colls |-> <<>>, points |-> {}, client |-> "cloud"],
                      [NoFault EXCEPT !.failAt = 1, !.kind = kind], 1)
    IN [outcome |-> r.outcome, ret |-> r.ret, client |-> r.client]

\* what the method reports when no call fails
OnStoreSuccess(v) ==
    LET r == EnsureOf(v, [colls |-> <<>>, points |-> {}, client |-> "cloud"], NoFault, 1)
    IN [outcome |-> r.outcome, ret |-> r.ret, client |-> r.client]

\* Both callers work on one object: self.qdrant_client is one attribute, so
\* the None an except clause stores in it is what every caller finds from
\* then on, and nothing sets it again.
Finish(p, rep, pc, call, faulted) ==
    procs' = [q \in Procs |->
                IF q = p
                THEN [pc |-> pc, outcome |-> rep.outcome, ret |-> rep.ret,
                      client |-> IF procs[p].client = "none" THEN "none" ELSE rep.client,
                      faulted |-> procs[p].faulted \/ faulted,
                      calls |-> Append(procs[p].calls, call)]
                ELSE [procs[q] EXCEPT !.client = IF rep.client = "none" THEN "none" ELSE @]]

\* `if not self.qdrant_client: return`: a caller that enters after another
\* caller's failure has emptied the attribute returns without any call
EnsureNoClient(p) ==
    /\ procs[p].pc = "start"
    /\ procs[p].client = "none"
    /\ procs' = [procs EXCEPT ![p].pc = "done", ![p].outcome = "ok", ![p].ret = "None"]
    /\ UNCHANGED <<held, variant, constructed, client, colls, points, nextId, last, checked, elog, saved, storeFailed, saves>>

Faults(v) == {"none"} \cup KindsOf(v)

\* get_collections(): Robust calls it once to test the connection and once
\* more to look for the collection.  A caller that was past the entry check
\* when the attribute was emptied still gets its list answered; its next
\* statement, self.qdrant_client.create_collection, then raises on None and
\* the except clause ends the method without a create request.
EnsureList(p) ==
    /\ procs[p].pc \in {"start", "tested"}
    /\ \E fault \in Faults(variant) :
        IF fault # "none"
        THEN Finish(p, OnStoreFailure(variant, fault), "done", "list", TRUE)
        ELSE IF variant = "Robust" /\ procs[p].pc = "start"
        THEN Finish(p, NotStarted, "tested", "list", FALSE)
        ELSE IF collection_exists(colls["cloud"], CollectionName)
        THEN Finish(p, OnStoreSuccess(variant), "done", "list", FALSE)
        ELSE IF procs[p].client = "none"
        THEN Finish(p, OnStoreFailure(variant, "err"), "done", "list", FALSE)
        ELSE Finish(p, NotStarted, "creating", "list", FALSE)
    /\ UNCHANGED <<held, variant, constructed, client, colls, points, nextId, last, checked, elog, saved, storeFailed, saves>>

\* create_collection() after the collection was not in the list
EnsureCreate(p) ==
    /\ procs[p].pc = "creating"
    /\ \E fault \in Faults(variant) :
        LET c == StoreCreate(colls["cloud"], CollectionName, VectorSize, fault # "none")
        IN /\ colls' = [colls EXCEPT !["cloud"] = c.colls]
           /\ IF c.ok
              THEN Finish(p, OnStoreSuccess(variant), "done", "create", FALSE)
              ELSE Finish(p, OnStoreFailure(variant, IF fault = "none" THEN "err" ELSE fault),
                          "done", "create", fault # "none")
    /\ UNCHANGED <<held, variant, constructed, client, points, nextId, last, checked, elog, saved, storeFailed, saves>>

ListStep == \E p \in Procs : EnsureList(p)
CreateStep == \E p \in Procs : EnsureCreate(p)
NoClientStep == \E p \in Procs : EnsureNoClient(p)

NextConc ==
    \/ ListStep
    \/ CreateStep
    \/ NoClientStep

InitConc == Init /\ variant \notin {"Prod", "Working"}

ConcSpec == InitConc /\ [][NextConc]_vars

\* ------------------------------------------------------- overlapping saves
\* Two callers save one text each through the same object at the same time:
\* TextEmbeddingService.save_embeddings_to_qdrant (embed, list, create,
\* upsert) or StrictEmbeddingPipeline.save_embedding (embed, upsert).  Every
\* call to the provider or to the store is one step; no call is made to fail.

\* cohere_client.embed of the caller's text
SaveEmbed(p) ==
    /\ constructed
    /\ saves[p].pc = "start"
    /\ saves' = [saves EXCEPT ![p].vec = Some(cohere_embed(<<saves[p].text>>, DOCUMENT,
                                                          NoFault)[1]),
                              ![p].pc = IF variant = "TES" THEN "listing" ELSE "upserting"]
    /\ UNCHANGED <<held, variant, constructed, client, colls, points, nextId, last, procs, checked,
                   elog, saved, storeFailed>>

\* get_collections() of _ensure_collection_exists
SaveList(p) ==
    /\ saves[p].pc = "listing"
    /\ saves' = [saves EXCEPT ![p].pc = IF collection_exists(colls["cloud"], CollectionName)
                                        THEN "upserting" ELSE "creating"]
    /\ UNCHANGED <<held, variant, constructed, client, colls, points, nextId, last, procs, checked,
                   elog, saved, storeFailed>>

\* create_collection() after the collection was not listed; when it fails
\* _ensure_collection_exists returns False and the save raises
SaveCreate(p) ==
    /\ saves[p].pc = "creating"
    /\ LET c == StoreCreate(colls["cloud"], CollectionName, VectorSize, FALSE)
       IN /\ colls' = [colls EXCEPT !["cloud"] = c.colls]
          /\ saves' = IF c.ok THEN [saves EXCEPT ![p].pc = "upserting"]
                      ELSE [saves EXCEPT ![p].pc = "done", ![p].outcome = "Exception"]
    /\ UNCHANGED <<held, variant, constructed, client, points, nextId, last, procs, checked,
                   elog, saved, storeFailed>>

\* uuid4(), the payload and upsert()
SaveUpsert(p) ==
    /\ saves[p].pc = "upserting"
    /\ nextId <= MaxIds
    /\ LET payload == IF variant = "TES"
                      THEN AddDefaults(saves[p].meta, saves[p].text, nextId)
                      ELSE StrictPayload(saves[p].text, saves[p].meta)
           u == StoreUpsert(colls["cloud"], points["cloud"], CollectionName,
                            <<PointStruct(nextId, Val(saves[p].vec), payload)>>, FALSE)
       IN /\ points' = [points EXCEPT !["cloud"] = u.points]
          /\ nextId' = nextId + 1
          /\ saves' = [saves EXCEPT ![p].pc = "done",
                                    ![p].outcome = IF u.ok THEN "ok" ELSE "StoreError",
                                    ![p].id = IF u.ok THEN nextId ELSE 0]
    /\ UNCHANGED <<held, variant, constructed, client, colls, last, procs, checked,
                   elog, saved, storeFailed>>

SaveEmbedStep == \E p \in Procs : SaveEmbed(p)
SaveListStep == \E p \in Procs : SaveList(p)
SaveCreateStep == \E p \in Procs : SaveCreate(p)
SaveUpsertStep == \E p \in Procs : SaveUpsert(p)

NextConcSave ==
    \/ Construct
    \/ SaveEmbedStep
    \/ SaveListStep
    \/ SaveCreateStep
    \/ SaveUpsertStep

InitConcSave == Init /\ variant \in {"TES", "Strict"}

ConcSaveSpec == InitConcSave /\ [][NextConcSave]_vars

\* ------------------------------------------------------------------ claims
\* Every formula below speaks about `last`, the call that has just returned
\* (its arguments, the external calls it issued, what it returned) and about
\* the store as that call left it.

\* C1: a save of one text that returns an id leaves exactly one record with
\* that id in the collection, whatever the variant and whatever client the
\* object had when the call was made.
C1_SavedIdIsStored ==
    (last.op = "save" /\ last.outcome = "ok") =>
        /\ Len(last.ids) = 1
        /\ LET stored == IF last.hadClient = "none" THEN {} ELSE points[last.hadClient]
           IN Cardinality({p \in stored : p.id = last.ids[1]}) = 1

\* C2: a batch save of a non-empty list of texts, with no metadata list or one
\* of the same length, that succeeds returns as many ids as texts, every
\* returned id is the id of a stored record, and the collection holds at
\* least as many records as there were texts.
C2_BatchIdsAllStored ==
    (/\ last.op = "save_batch"
     /\ last.outcome = "ok"
     /\ last.texts # <<>>
     /\ IsNone(last.metaList) \/ Len(Val(last.metaList)) = Len(last.texts)) =>
        LET stored == IF last.hadClient = "none" THEN {} ELSE points[last.hadClient]
        IN /\ Len(last.ids) = Len(last.texts)
           /\ \A i \in 1..Len(last.ids) : \E p \in stored : p.id = last.ids[i]
           /\ Cardinality(stored) >= Len(last.texts)

\* C3: a batch save of a non-empty list of texts with a metadata list of
\* another length fails and writes no record; unless an external call failed
\* first, the failure is a ValueError.
C3_MetadataLengthMismatchRejected ==
    (/\ last.op = "save_batch"
     /\ last.texts # <<>>
     /\ ~IsNone(last.metaList)
     /\ Len(Val(last.metaList)) # Len(last.texts)) =>
        /\ last.outcome # "ok"
        /\ last.written = {}
        /\ last.env.failAt = 0 => last.outcome = "ValueError"

\* C4: a retrieve with a blank query and a save (of one text or of a list)
\* with a blank text fail with ValueError before any external call: nothing
\* is embedded, searched or written.
C4_BlankTextRejected ==
    (/\ last.op \in {"save", "save_batch", "retrieve"}
     /\ \E i \in 1..Len(last.texts) : IsBlank(last.texts[i])) =>
        /\ last.outcome = "ValueError"
        /\ last.calls = <<>>
        /\ last.written = {}

\* C5: a collection check made when the collection is listed issues no create
\* call; two checks in a row on a store without the collection, no external
\* call failing, issue exactly one create call between them, both succeed and
\* the store then lists exactly one collection of that name.
C5_EnsureIdempotent ==
    /\ \A i \in 1..Len(elog) :
          (elog[i].hadClient # "none" /\ elog[i].existed) =>
              \A j \in 1..Len(elog[i].calls) : elog[i].calls[j] # "create"
    /\ \A i \in 1..(Len(elog) - 1) :
          (/\ elog[i].hadClient # "none"
           /\ elog[i + 1].hadClient # "none"
           /\ ~elog[i].existed
           /\ \A n \in {i, i + 1} :
                 elog[n].env.failAt = 0 \/ elog[n].env.failAt > Len(elog[n].calls)) =>
              LET cs == colls[elog[i].hadClient]
                  creates(n) == Cardinality({j \in 1..Len(elog[n].calls) :
                                                elog[n].calls[j] = "create"})
              IN /\ creates(i) + creates(i + 1) = 1
                 /\ EnsureSucceeded(elog[i])
                 /\ EnsureSucceeded(elog[i + 1])
                 /\ Cardinality({j \in 1..Len(cs) : cs[j].name = CollectionName}) = 1

\* C5 witness: two checks were made in a row without a failing call, the
\* first on a store without the collection; the first created it and the
\* second found it listed.
C5_Witness ==
    /\ Len(elog) = 2
    /\ elog[1].hadClient # "none"
    /\ elog[2].hadClient # "none"
    /\ ~elog[1].existed
    /\ elog[2].existed
    /\ elog[1].env.failAt = 0
    /\ elog[2].env.failAt = 0
    /\ \E j \in 1..Len(elog[1].calls) : elog[1].calls[j] = "create"
    /\ EnsureSucceeded(elog[2])

\* C6: when two collection checks overlap and no request to the store is
\* made to fail, both checks succeed (neither raises nor reports failure)
\* and the store lists exactly one collection of that name.
C6_ConcurrentEnsureBothSucceed ==
    (\A p \in Procs : procs[p].pc = "done" /\ ~procs[p].faulted) =>
        /\ \A p \in Procs : EnsureSucceeded(procs[p]) /\ procs[p].client # "none"
        /\ Cardinality({j \in 1..Len(colls["cloud"]) :
                           colls["cloud"][j].name = CollectionName}) = 1

\* C7: a save or retrieve issues an upsert or a search only after a listing
\* of the collections (with the creation, when needed) went through, earlier
\* in the same call or in __init__; when a listing or creation of the call
\* fails, or __init__ left the object without a client, the call fails.
C7_NoStoreAccessBeforeCheck ==
    (last.op \in {"save", "save_batch", "retrieve"}) =>
        /\ \A i \in 1..Len(last.calls) :
              last.calls[i] \in {"upsert", "search"} =>
                  \/ checked
                  \/ /\ \E j \in 1..(i - 1) : last.calls[j] = "list"
                     /\ last.env.failAt = 0 \/ last.env.failAt >= i
        /\ (/\ last.env.failAt \in 1..Len(last.calls)
            /\ last.calls[last.env.failAt] \in {"list", "create"}) => last.outcome # "ok"
        /\ (last.hadClient = "none" /\ last.calls # <<>>) => last.outcome # "ok"

\* C8: a retrieve that returns normally has run a search that succeeded: a
\* failed provider call, a failed search or a missing client is never
\* reported as a list of results, empty or not.
C8_RetrieveFailureNotEmptyResult ==
    (last.op = "retrieve" /\ last.outcome = "ok") =>
        /\ last.hadClient # "none"
        /\ last.calls # <<>>
        /\ last.calls[Len(last.calls)] = "search"
        /\ last.env.failAt \notin 1..Len(last.calls)

\* C9: when the provider answers with a vector whose length is not the
\* configured one, the save or retrieve fails and issues neither an upsert
\* nor a search with that vector.
C9_WrongDimensionRejected ==
    (/\ last.op \in {"save", "save_batch", "retrieve"}
     /\ \E i \in 1..Len(last.vecs) : last.vecs[i].dim # VectorSize) =>
        /\ last.outcome # "ok"
        /\ \A j \in 1..Len(last.calls) : last.calls[j] \notin {"upsert", "search"}

\* C10: convert_text_to_embeddings on a non-empty list returns one vector per
\* text, in the order of the texts, whatever the provider answered.
C10_EmbedOneVectorPerText ==
    (last.op = "embed" /\ last.outcome = "ok" /\ last.texts # <<>>) =>
        /\ Len(last.vecs) = Len(last.texts)
        /\ \A i \in 1..Len(last.vecs) : last.vecs[i].text = last.texts[i]

\* C11: every vector a save obtained from the provider, and so every vector
\* stored, was embedded in document mode (search_document); every vector a
\* retrieve obtained was embedded in query mode (search_query).
C11_EmbedModePreserved ==
    /\ last.op \in {"save", "save_batch"} =>
          \A i \in 1..Len(last.vecs) : last.vecs[i].mode = "search_document"
    /\ last.op = "retrieve" =>
          \A i \in 1..Len(last.vecs) : last.vecs[i].mode = "search_query"
    /\ \A s \in Stores : \A p \in points[s] : p.vector.mode = "search_document"

\* C11 witness: a retrieve has embedded its query, in query mode, against a
\* store that holds a record a save embedded in document mode.
C11_Witness ==
    /\ last.op = "retrieve"
    /\ last.outcome = "ok"
    /\ last.vecs # <<>>
    /\ last.vecs[1].mode = "search_query"
    /\ last.hadClient # "none"
    /\ \E p \in points[last.hadClient] : p.vector.mode = "search_document"

\* C12: every record a save has written carries the keys text and created_at
\* in its payload; each holds the value of the caller's metadata when that
\* metadata has the key, and otherwise the default (the source text, the
\* time of the save); every other key of the caller's metadata is in the
\* payload with the caller's value.
C12_PayloadDefaultsAndCallerKeys ==
    (last.op \in {"save", "save_batch"} /\ last.hadClient # "none") =>
        \A i \in 1..Len(last.ids) :
            last.ids[i] \in last.written =>
                LET p == CHOOSE q \in points[last.hadClient] : q.id = last.ids[i]
                    m == IF last.op = "save"
                         THEN (IF IsNone(last.meta) THEN EmptyDict ELSE Val(last.meta))
                         ELSE (IF IsNone(last.metaList) THEN EmptyDict
                               ELSE Val(last.metaList)[i])
                IN /\ p.payload["text"] =
                          (IF Has(m, "text") THEN m["text"] ELSE Some(last.texts[i]))
                   /\ p.payload["created_at"] =
                          (IF Has(m, "created_at") THEN m["created_at"] ELSE Some(NOW))
                   /\ \A k \in Keys : Has(m, k) => p.payload[k] = m[k]

\* C13: a record saved with a text and the metadata {"category": "AI"}, when
\* it is among the hits of a later successful retrieve, is returned with
\* payload category "AI", with the text it was saved with, and under the id
\* the save returned.
C13_RoundTrip ==
    (last.op = "retrieve" /\ last.outcome = "ok") =>
        \A i \in Ids :
            (~IsNone(saved[i]) /\ Val(saved[i]).meta = CategoryAI) =>
                \A n \in 1..Len(last.res) :
                    last.res[n].id = i =>
                        /\ last.res[n].payload["category"] = Some("AI")
                        /\ last.res[n].text = Val(saved[i]).text

\* C14: a successful retrieve with limit k returns at most k results, returns
\* exactly k only when the collection holds at least k records, and returns
\* the empty sequence when the collection holds no record.
C14_AtMostKResults ==
    (last.op = "retrieve" /\ last.outcome = "ok") =>
        LET count == IF last.hadClient = "none" THEN 0
                     ELSE Cardinality(points[last.hadClient])
        IN /\ Len(last.res) <= last.k
           /\ Len(last.res) = last.k => count >= last.k
           /\ count = 0 => last.res = <<>>

\* C16: a successful retrieve returns one result per hit of the store, in the
\* order of the hits: the hit's id, score and payload, and as text the
\* payload's text or "" when the payload has none.
C16_ResultsFollowHits ==
    (last.op = "retrieve" /\ last.outcome = "ok" /\ last.hadClient # "none") =>
        LET hits == IF last.vecs = <<>> THEN <<>>
                    ELSE StoreSearch(colls[last.hadClient], points[last.hadClient],
                                     CollectionName, last.vecs[1], last.k, FALSE).hits
        IN /\ Len(last.res) = Len(hits)
           /\ \A n \in 1..Len(hits) :
                /\ last.res[n].id = hits[n].id
                /\ last.res[n].score = hits[n].score
                /\ last.res[n].payload = hits[n].payload
                /\ last.res[n].text = IF Has(hits[n].payload, "text")
                                      THEN Get(hits[n].payload, "text") ELSE <<>>

\* C15: a retrieve whose limit lies outside 1..100 fails as invalid input
\* and issues no search.
C15_TopKOutOfRangeRejected ==
    (last.op \in {"retrieve", "api_search"} /\ (last.k < 1 \/ last.k > TopKLimit)) =>
        /\ last.outcome \in {"ValueError", "HTTP400"}
        /\ \A j \in 1..Len(last.calls) : last.calls[j] # "search"

\* C17: a health check never raises, and it reports a status other than
\* healthy whenever a call to the store fails or the collection is missing.
C17_HealthReportsUnhealthy ==
    last.op = "health" =>
        /\ last.outcome = "ok"
        /\ (last.env.failAt # 0 \/ ~last.existed) => last.ret \notin {"healthy", "available"}

\* C18: a retrieve, a count or a health check leaves the records of the
\* collection as they were, and the record count it reports is the number of
\* records the collection held before the call.
C18_ReadOnlyKeepsRecords ==
    [][(last = Idle /\ last'.op \in {"retrieve", "api_search", "count", "health"}) =>
          /\ points' = points
          /\ (~IsNone(last'.count) /\ last'.hadClient # "none") =>
                 Val(last'.count) = Cardinality(points[last'.hadClient])]_vars

\* C19: a construction with a required credential absent (provider key,
\* store URL or store API key) fails, and leaves no service object.
C19_MissingCredentialFailsConstruction ==
    (last.op = "construct" /\ last.creds # Creds) =>
        /\ last.outcome # "ok"
        /\ ~constructed

\* C20: every step leaves each collection a store holds as it is (none is
\* altered, deleted or made again), a collection that is added is made with
\* vector size 1024 and the cosine distance under a name the store did not
\* hold, and a call that finds the collection listed, whatever its
\* parameters, issues no create call.
C20_CollectionParametersFixed ==
    [][/\ \A s \in Stores :
            /\ Len(colls'[s]) >= Len(colls[s])
            /\ \A j \in 1..Len(colls[s]) : colls'[s][j] = colls[s][j]
            /\ \A j \in (Len(colls[s]) + 1)..Len(colls'[s]) :
                 /\ colls'[s][j].size = 1024
                 /\ colls'[s][j].distance = "Cosine"
                 /\ ~collection_exists(colls[s], colls'[s][j].name)
       /\ (last'.hadClient # "none" /\ last'.existed) =>
              \A j \in 1..Len(last'.calls) : last'.calls[j] # "create"]_vars

\* C20 witness: a collection check has run on a store that lists the
\* collection with another vector size and distance; it succeeded with the
\* list call alone and the collection still has those parameters.
C20_Witness ==
    /\ last.op = "ensure" /\ last.outcome = "ok" /\ last.existed
    /\ last.hadClient # "none"
    /\ last.calls = <<"list">>
    /\ \E j \in 1..Len(colls[last.hadClient]) :
          /\ colls[last.hadClient][j].name = CollectionName
          /\ colls[last.hadClient][j].size # 1024
          /\ colls[last.hadClient][j].distance = "Dot"

\* C21: a record that exists stays in the collection with the same vector
\* and payload through every step, except a delete that names its id.
C21_RecordsImmutable ==
    [][\A s \in Stores : \A p \in points[s] :
          \/ p \in points'[s]
          \/ /\ last'.op = "delete"
             /\ \E i \in 1..Len(Val(last'.idsArg)) : Val(last'.idsArg)[i] = p.id]_vars

\* C22: a batch save issues at most one embedding call and at most one
\* upsert; when its embedding call or its upsert fails, the save raises and
\* the records of the collection are those it held before the call.
C22_BatchSaveAllOrNothing ==
    [][(last = Idle /\ last'.op = "save_batch") =>
          LET calls == last'.calls
              f == last'.env.failAt
          IN /\ Cardinality({j \in 1..Len(calls) : calls[j] = "embed_document"}) <= 1
             /\ Cardinality({j \in 1..Len(calls) : calls[j] = "upsert"}) <= 1
             /\ (f \in 1..Len(calls) /\ calls[f] \in {"embed_document", "upsert"}) =>
                    /\ last'.outcome # "ok"
                    /\ points' = points]_vars

\* C22 witness: a batch save on a collection that holds a record has raised
\* because its upsert, the last call it issued, failed.
C22_Witness ==
    /\ last.op = "save_batch" /\ last.outcome # "ok"
    /\ last.hadClient # "none"
    /\ last.calls # <<>>
    /\ last.calls[Len(last.calls)] = "upsert"
    /\ last.env.failAt = Len(last.calls)
    /\ points[last.hadClient] # {}

\* C23: when a call to the provider or to the store fails inside a save, a
\* retrieve, a collection check or the collection check of a construction,
\* the operation issues no later call of the same kind and ends with the
\* failure (an exception, or the value False of a collection check).
C23_NoRetryAfterFailure ==
    (/\ last.op \in {"save", "save_batch", "retrieve", "ensure", "construct"}
     /\ last.env.failAt \in 1..Len(last.calls)) =>
        /\ \A j \in (last.env.failAt + 1)..Len(last.calls) :
              last.calls[j] # last.calls[last.env.failAt]
        /\ last.outcome # "ok" \/ last.ret = "False"

\* C24: when a request to the store failed in the latest save or retrieve,
\* the next save or retrieve lists the collections before it upserts or
\* searches.
C24_ReverifyAfterStoreFailure ==
    [][(/\ storeFailed
        /\ last = Idle
        /\ last'.op \in {"save", "save_batch", "retrieve", "api_search"}) =>
          \A j \in 1..Len(last'.calls) :
              last'.calls[j] \in {"upsert", "search"} =>
                  \E i \in 1..(j - 1) : last'.calls[i] = "list"]_vars

\* C25: when two overlapping saves on one object have both ended, on a store
\* whose collection (if it held one) has the vector size of the provider,
\* both returned an id, the ids differ, and the collection holds for each id
\* one record with the text and the metadata of the call that returned it.
C25_ConcurrentSavesBothStored ==
    (/\ \A p \in Procs : saves[p].pc = "done"
     /\ \A j \in 1..Len(colls["cloud"]) :
           colls["cloud"][j].name = CollectionName => colls["cloud"][j].size = 1024) =>
        /\ \A p \in Procs : saves[p].outcome = "ok"
        /\ saves["p"].id # saves["q"].id
        /\ \A p \in Procs :
              /\ Cardinality({r \in points["cloud"] : r.id = saves[p].id}) = 1
              /\ \A r \in points["cloud"] :
                    r.id = saves[p].id =>
                        /\ r.payload["text"] = Some(saves[p].text)
                        /\ r.payload["category"] = saves[p].meta["category"]

\* C26: a retrieve of a text that is not blank with limit 1, no call of it
\* failing, made after a save of that same text returned an id and no other
\* save was given that text, returns exactly one result, and its id is the
\* id that save returned.
C26_SelfRetrieval ==
    (/\ last.op = "retrieve"
     /\ last.k = 1
     /\ last.env = NoFault
     /\ ~IsBlank(last.texts[1])) =>
        \A i \in Ids :
            (/\ ~IsNone(saved[i])
             /\ Val(saved[i]).text = last.texts[1]
             /\ \A j \in Ids \ {i} :
                   IsNone(saved[j]) \/ Val(saved[j]).text # last.texts[1]) =>
                /\ last.outcome = "ok"
                /\ Len(last.res) = 1
                /\ last.res[1].id = i

\* C27: a LocalQdrantEmbeddingPipeline built with every credential present and
\* the local fallback allowed that did not end connected to the cloud store has
\* attempted the local connection; it is without storage only after that
\* attempt.
C27_FallbackBeforeNoStorage ==
    (/\ variant = "Local"
     /\ last.op = "construct"
     /\ last.creds = Creds
     /\ last.fallback
     /\ client # "cloud") =>
        \E j \in 1..Len(last.calls) : last.calls[j] = "connect_local"

\* C28: a save or retrieve that ended with ValueError and was given caller
\* data that is not valid (a blank text or query, a metadata list or an id
\* list whose length differs from the number of texts), the provider's vectors
\* being of the expected size so that this is the only reason for a ValueError,
\* made no provider call and no store call, and left collections and records
\* as they were.
C28_InvalidInputBeforeAnyCall ==
    [][(/\ last'.op \in {"save", "save_batch", "retrieve"}
        /\ last'.outcome = "ValueError"
        /\ last'.env.provDim = VectorSize
        /\ \/ /\ last'.op \in {"save", "retrieve"}
              /\ IsBlank(last'.texts[1])
           \/ /\ last'.op = "save_batch"
              /\ \/ /\ ~IsNone(last'.metaList)
                    /\ Len(Val(last'.metaList)) # Len(last'.texts)
                 \/ /\ ~IsNone(last'.idsArg)
                    /\ Len(Val(last'.idsArg)) # Len(last'.texts)) =>
           /\ last'.calls = <<>>
           /\ colls' = colls
           /\ points' = points]_vars

\* C29: when a caller passes the metadata dicts it already passed to an earlier
\* batch save, built without text, created_at and id, to a second batch save
\* whose texts differ from every text saved before, each record the second
\* save wrote has the second call's text and its own id in its payload.
C29_ReusedMetadataGetsOwnTextAndId ==
    (/\ last.op = "save_batch"
     /\ last.reused
     /\ last.hadClient # "none"
     /\ \A i \in Ids : \A j \in 1..Len(last.texts) :
           (~IsNone(saved[i]) /\ Val(saved[i]).text = last.texts[j]) =>
               \E n \in 1..Len(last.ids) : last.ids[n] = i) =>
        \A j \in 1..Len(last.ids) :
            \A p \in points[last.hadClient] :
                (p.id = last.ids[j] /\ p.id \in last.written) =>
                    /\ p.payload["text"] = Some(last.texts[j])
                    /\ p.payload["id"] = Some(p.id)

\* C30: every request to /embed, /save, /search or /delete ends as a success,
\* as HTTP 400 or as HTTP 500: as 400 only when the service was not called (no
\* provider or store call was made and the store is as it was), as a success
\* only when the service call on the same state and arguments returns without
\* raising, and as 500 when that service call raises, a ValueError included.
C30_ApiOutcomes ==
    [][(/\ last = Idle
        /\ last'.op \in {"api_embed", "api_save", "api_search", "api_delete"}) =>
          LET svc == CASE last'.op = "api_embed" ->
                              convert_text_to_embeddings(St, last'.texts, last'.env)
                       [] last'.op = "api_save" ->
                              TES_save_embeddings_to_qdrant(St, last'.texts, last'.metaList,
                                                            FALSE, None, last'.env, nextId)
                       [] last'.op = "api_search" ->
                              TES_retrieve_similar_embeddings(St, last'.texts[1], last'.k,
                                                              last'.env)
                       [] last'.op = "api_delete" ->
                              TES_delete_embeddings_by_ids(St, Val(last'.idsArg), last'.env)
          IN /\ last'.outcome \in {"ok", "HTTP400", "HTTP500"}
             /\ last'.outcome = "HTTP400" =>
                    /\ last'.calls = <<>>
                    /\ colls' = colls
                    /\ points' = points
             /\ last'.outcome = "ok" => svc.outcome = "ok"
             /\ last'.outcome = "HTTP500" => svc.outcome # "ok"]_vars

C30_Witness ==
    /\ last.op = "api_save"
    /\ last.outcome = "HTTP500"
    /\ last.env = NoFault
    /\ ~IsNone(last.metaList)
    /\ Len(Val(last.metaList)) # Len(last.texts)
    /\ last.calls # <<>>

====
